---- MODULE Spec2Model ----
(***************************************************************************)
(* Local Nexus Controller: service registry, port allocator, registry      *)
(* importer and process supervisor.                                        *)
(*                                                                         *)
(* The store (Service, Database, KeyRef tables), the host's TCP state and  *)
(* the OS process table are the state.  Every handler is one action; its   *)
(* input and its return value are recorded in `last`, so that a property   *)
(* of "the call that just returned" relates the state before the step     *)
(* (unprimed), the state after it (primed) and last'.  A restart, and a    *)
(* start where two of them are set against each other, run in the steps    *)
(* in which they touch the store and the host; `calls` holds the locals    *)
(* of the calls that are between two steps.                                *)
(*                                                                         *)
(* Encodings: an Optional[int] that is None is 0 (ports and pids are       *)
(* positive); an Optional[str] that is None is ""; a URL is the port it    *)
(* embeds ("http://127.0.0.1:<n>" is n) and 0 when it is None.             *)
(***************************************************************************)
EXTENDS Integers, Sequences, FiniteSets, TLC

\* ------------------------------------------------------------------ bounds
\* Largest port of the allocator's range (LOCAL_NEXUS_PORT_RANGE_END).
port_range_end == 3002
\* Largest pid the OS hands out.
MaxPid == 2
\* The Service rows the registry is let to grow to.
MaxServices == 2
\* The rows the delete endpoints are let to remove in all.
MaxRetired == 1
\* The KeyRef rows the create endpoint is let to add up to.
MaxKeys == 2

\* --------------------------------------------------------------- constants
port_range_start == 3000
DefaultControllerPort == 5010
None == 0

\* ------------------------------------------------------------- input sets
Names == {"api", "worker"}
RangePorts == port_range_start..port_range_end
\* settings.port as configured: the default, or a port inside the range.
ControllerPorts == {DefaultControllerPort, port_range_start + 1}
Pids == 1..MaxPid
Statuses == {"stopped", "running", "error"}

K1 == [key_name |-> "API_KEY", env_var |-> "API_KEY", description |-> ""]
K2 == [key_name |-> "DB_PASS", env_var |-> "DB_PASSWORD", description |-> "db"]
KeyLists == {<< >>, <<K1>>, <<K2, K1>>}

NoDatabase == [database_name |-> "", type |-> ""]
DatabaseDescs == {[database_name |-> "maindb", type |-> t] : t \in {"sqlite", "postgres"}}

VARIABLES
    settings_port,  \* settings.port, the controller's own port
    services,       \* Service table: id -> row
    keyrefs,        \* KeyRef table: set of rows
    databases,      \* Database table: id -> row
    in_use,         \* host ports that accept TCP connections
    procs,          \* OS process table: pid -> "none" | "live" | "zombie"
    last,           \* the call that returned last: operation, input, result
    calls,          \* calls in flight between two steps: call id -> its locals
    retired,        \* ids of deleted Service and Database rows
    watcher         \* the FileWatcher object and its watch-loop threads

vars == <<settings_port, services, keyrefs, databases, in_use, procs, last,
          calls, retired, watcher>>

\* ------------------------------------------------------------------ helpers
SetMin(S) == CHOOSE x \in S : \A y \in S : x <= y

\* _uuid_str: an id that no row of the table holds or has held.
FreshId(table) ==
    SetMin({i \in 1..(Cardinality(DOMAIN table) + Cardinality(retired) + 1) :
              i \notin DOMAIN table \cup retired})

\* "{PORT}" in cmd
HasPortPlaceholder(cmd) == cmd = "run --port {PORT}"

\* ------------------------------------------------------------------- ports
is_port_in_use(port) == port \in in_use

controller_port == settings_port

is_controller_port(port) == port = controller_port

reserved_ports_without_controller(svcs) ==
    {svcs[i].port : i \in {j \in DOMAIN svcs : svcs[j].port # None}}

reserved_ports(svcs) ==
    {controller_port} \cup {svcs[i].port : i \in {j \in DOMAIN svcs : svcs[j].port # None}}

\* The scan of range(start, end + 1) from `port` on; None stands for the
\* RuntimeError "No free port found in range".
RECURSIVE ScanPorts(_, _, _)
ScanPorts(port, end, reserved) ==
    IF port > end THEN None
    ELSE IF port \in reserved THEN ScanPorts(port + 1, end, reserved)
    ELSE IF is_port_in_use(port) THEN ScanPorts(port + 1, end, reserved)
    ELSE port

next_available_port_ignoring_probe(svcs, start, end) ==
    LET free == {p \in start..end : p \notin reserved_ports(svcs)}
    IN  IF free = {} THEN None ELSE SetMin(free)

next_available_port_last_resort(svcs, start, end) ==
    LET p == ScanPorts(start, end, reserved_ports(svcs))
    IN  IF p = None /\ start <= end THEN end ELSE p

next_available_port(svcs, start, end) ==
    ScanPorts(start, end, reserved_ports(svcs))

\* -------------------------------------------------------- resolve-conflicts
\* by_port: the ids of the services that reserve the port
Owners(svcs, port) == {i \in DOMAIN svcs : svcs[i].port = port}

\* "svc.status == 'running' and svc.process_pid is not None"
CountsAsRunning(service) ==
    service.status = "running" /\ service.process_pid # None

\* _pick_keeper: a running service if there is one, otherwise the first;
\* the candidates are in the order of created_at, which is the order of ids.
_pick_keeper(svcs, candidates) ==
    LET running == {i \in candidates : CountsAsRunning(svcs[i])}
    IN  IF running # {} THEN SetMin(running) ELSE SetMin(candidates)

\* _update_urls after svc.port = new_port
Moved(service, new_port) ==
    [service EXCEPT
        !.port = new_port,
        !.local_url = IF @ = None THEN new_port
                      ELSE IF @ = service.port THEN new_port ELSE @,
        !.healthcheck_url = IF @ # None /\ @ = service.port THEN new_port ELSE @]

Duplicates_none(svcs) == {}

\* The services that step 1 moves: every owner of a port with several
\* owners but the keeper.
Duplicates(svcs) ==
    {i \in DOMAIN svcs :
        /\ svcs[i].port # None
        /\ Cardinality(Owners(svcs, svcs[i].port)) > 1
        /\ i # _pick_keeper(svcs, Owners(svcs, svcs[i].port))}

Squatted_any_status(svcs) ==
    {i \in DOMAIN svcs : svcs[i].port # None /\ is_port_in_use(svcs[i].port)}

\* The services that step 2 moves: not running, on a port in use.
Squatted(svcs) ==
    {i \in DOMAIN svcs :
        /\ svcs[i].port # None
        /\ ~CountsAsRunning(svcs[i])
        /\ is_port_in_use(svcs[i].port)}

\* The loop of a step over the services in `pending`, in the order in which
\* the step meets them (orig: the table the step began with; step 1 goes by
\* port and then creation, step 2 by creation).  Each gets the port the
\* allocator returns for the table as changed so far; raised: the allocator
\* found none and the call ends there.
RECURSIVE ReassignAll(_, _, _, _)
ReassignAll(svcs, orig, pending, moved) ==
    IF pending = {} THEN [table |-> svcs, moved |-> moved, raised |-> FALSE]
    ELSE LET sid == CHOOSE i \in pending : \A j \in pending :
                       \/ orig[i].port < orig[j].port
                       \/ orig[i].port = orig[j].port /\ i <= j
             new_port == next_available_port(svcs, port_range_start, port_range_end)
         IN  IF new_port = None
             THEN [table |-> svcs, moved |-> moved, raised |-> TRUE]
             ELSE ReassignAll([svcs EXCEPT ![sid] = Moved(@, new_port)], orig,
                              pending \ {sid}, moved \cup {sid})

\* ---------------------------------------------------------------- importer
\* The table without the row of the id.
Without(table, id) == [i \in DOMAIN table \ {id} |-> table[i]]

Unlinked_cascade(svcs, database_id) ==
    LET kept == {i \in DOMAIN svcs : svcs[i].database_id # database_id}
    IN  [i \in kept |-> svcs[i]]

\* delete_database: for svc in linked: svc.database_id = None
Unlinked(svcs, database_id) ==
    [i \in DOMAIN svcs |->
        IF svcs[i].database_id = database_id
        THEN [svcs[i] EXCEPT !.database_id = None]
        ELSE svcs[i]]

\* port_map's by_port: one reserving service for every reserved port.  The
\* select has no ORDER BY and a later row replaces an earlier one of the
\* same port, so any service of a port may be the one that stays.
ByPort(svcs) ==
    LET reserved == {svcs[i].port : i \in DOMAIN svcs} \ {None}
    IN  {f \in [reserved -> DOMAIN svcs] : \A p \in reserved : svcs[f[p]].port = p}

PortConflict_ignores_status(svcs, sid, busy) == sid # None /\ busy

\* bool(svc) and in_use and (svc.status != "running")
PortConflict(svcs, sid, busy) ==
    sid # None /\ busy /\ svcs[sid].status # "running"

\* port_map(session, host, start, end), by_port as the select filled it
port_map(svcs, by_port, start, end) ==
    [i \in 1..(IF end < start THEN 0 ELSE end - start + 1) |->
        LET port == start + i - 1
            sid == IF port \in DOMAIN by_port THEN by_port[port] ELSE None
            busy == is_port_in_use(port)
        IN  [port |-> port,
             reserved_by_service_id |-> sid,
             reserved_by_service_name |-> IF sid = None THEN "" ELSE svcs[sid].name,
             in_use_on_host |-> busy,
             conflict |-> PortConflict(svcs, sid, busy)]]

\* session.exec(select(...)).first(): the select has no ORDER BY, so any
\* matching row may be the first; None when no row matches.
First(ids) == IF ids = {} THEN {None} ELSE ids

ServiceByName(svcs, name) == {i \in DOMAIN svcs : svcs[i].name = name}

DatabaseByName(dbs, name) == {i \in DOMAIN dbs : dbs[i].database_name = name}

_upsert_database_always_inserts(dbs, db_in) ==
    LET id == FreshId(dbs)
    IN  [table |-> (id :> [id |-> id,
                           database_name |-> db_in.database_name,
                           type |-> db_in.type]) @@ dbs,
         id |-> id]

\* Result: the table after the commit and the id of the upserted row.
_upsert_database(dbs, db_in) ==
    LET found == DatabaseByName(dbs, db_in.database_name)
    IN  IF found # {}
        THEN LET existing == SetMin(found)
             IN  [table |-> [dbs EXCEPT ![existing] =
                                [id |-> existing,
                                 database_name |-> db_in.database_name,
                                 type |-> db_in.type]],
                  id |-> existing]
        ELSE LET id == FreshId(dbs)
             IN  [table |-> (id :> [id |-> id,
                                    database_name |-> db_in.database_name,
                                    type |-> db_in.type]) @@ dbs,
                  id |-> id]

\* Service(**svc_in): the fields the caller does not give take their defaults.
NewService(id, svc_in) ==
    [id |-> id,
     name |-> svc_in.name,
     port |-> svc_in.port,
     local_url |-> svc_in.local_url,
     healthcheck_url |-> svc_in.healthcheck_url,
     start_command |-> svc_in.start_command,
     stop_command |-> svc_in.stop_command,
     restart_command |-> svc_in.restart_command,
     status |-> IF "status" \in DOMAIN svc_in THEN svc_in.status ELSE "stopped",
     process_pid |-> None,
     process_started_at |-> FALSE,
     last_error |-> "",
     log_path |-> << >>,
     database_id |-> svc_in.database_id]

\* for k, v in svc_in.items(): setattr(existing, k, v)
SetAttrs(row, svc_in) ==
    [f \in DOMAIN row |-> IF f \in DOMAIN svc_in THEN svc_in[f] ELSE row[f]]

_upsert_service_always_insert(svcs, existing, svc_in) ==
    LET id == FreshId(svcs)
    IN  [table |-> (id :> NewService(id, svc_in)) @@ svcs, id |-> id]

\* `existing` is the row the select by name returned (None: no such row).
_upsert_service(svcs, existing, svc_in) ==
    IF existing # None
    THEN [table |-> [svcs EXCEPT ![existing] = SetAttrs(svcs[existing], svc_in)],
          id |-> existing]
    ELSE LET id == FreshId(svcs)
         IN  [table |-> (id :> NewService(id, svc_in)) @@ svcs, id |-> id]

ResolvePort_service_first(bundle, svcs) ==
    LET port == IF bundle.service.port # None THEN bundle.service.port
                ELSE bundle.requested_port
        consult == port = None /\ bundle.auto_assign_port
    IN  [port |-> IF consult
                  THEN next_available_port(svcs, port_range_start, port_range_end)
                  ELSE port,
         consulted |-> consult]

\* Port assignment.  consulted: next_available_port was called; a port of
\* None with consulted TRUE is its RuntimeError.
ResolvePort(bundle, svcs) ==
    LET port == IF bundle.requested_port # None THEN bundle.requested_port
                ELSE bundle.service.port
        consult == port = None /\ bundle.auto_assign_port
    IN  [port |-> IF consult
                  THEN next_available_port(svcs, port_range_start, port_range_end)
                  ELSE port,
         consulted |-> consult]

ConflictingServices_any_name(svcs, port, name) ==
    {i \in DOMAIN svcs : svcs[i].port = port}

\* select(Service).where(Service.port == port, Service.name != name)
ConflictingServices(svcs, port, name) ==
    {i \in DOMAIN svcs : svcs[i].port = port /\ svcs[i].name # name}

ImportWarnings_always_probe_warning(svcs, port, conflicting) ==
    IF port = None THEN << >>
    ELSE (IF conflicting # None
          THEN <<[kind |-> "reserved", port |-> port, by |-> svcs[conflicting].name]>>
          ELSE << >>)
         \o <<[kind |-> "in_use", port |-> port, by |-> ""]>>

\* Check conflicts: `conflicting` is the row the select returned.
ImportWarnings(svcs, port, conflicting) ==
    IF port = None THEN << >>
    ELSE (IF conflicting # None
          THEN <<[kind |-> "reserved", port |-> port, by |-> svcs[conflicting].name]>>
          ELSE << >>)
         \o (IF is_port_in_use(port)
             THEN <<[kind |-> "in_use", port |-> port, by |-> ""]>>
             ELSE << >>)

\* svc_dict: ServiceCreate.model_dump() with port, database_id and status set.
SvcDict(bundle, port, database_id) ==
    [name |-> bundle.service.name,
     port |-> port,
     local_url |-> bundle.service.local_url,
     healthcheck_url |-> bundle.service.healthcheck_url,
     start_command |-> bundle.service.start_command,
     stop_command |-> bundle.service.stop_command,
     restart_command |-> bundle.service.restart_command,
     database_id |-> IF database_id # None THEN database_id
                     ELSE bundle.service.database_id,
     status |-> "stopped"]

FreshKeyId(keys) ==
    SetMin({i \in 1..(Cardinality(keys) + 1) : \A k \in keys : k.id # i})

RECURSIVE InsertKeys(_, _, _)
InsertKeys(keys, service_id, key_list) ==
    IF key_list = << >> THEN keys
    ELSE InsertKeys(keys \cup {[id |-> FreshKeyId(keys),
                                service_id |-> service_id,
                                key_name |-> Head(key_list).key_name,
                                env_var |-> Head(key_list).env_var,
                                description |-> Head(key_list).description]},
                    service_id, Tail(key_list))

ReplaceKeys_keep_existing(keys, service_id, key_list) ==
    InsertKeys(keys, service_id, key_list)

\* Replace keys for service: delete the service's rows, insert the bundle's.
ReplaceKeys(keys, service_id, key_list) ==
    InsertKeys({k \in keys : k.service_id # service_id}, service_id, key_list)

import_bundle(bundle) ==
    LET db == IF bundle.database # NoDatabase /\ bundle.auto_create_db
              THEN _upsert_database(databases, bundle.database)
              ELSE [table |-> databases, id |-> None]
        resolved == ResolvePort(bundle, services)
        port == resolved.port
    IN  /\ databases' = db.table
        /\ UNCHANGED <<calls, retired, settings_port, in_use, procs>>
        /\ IF resolved.consulted /\ port = None
           THEN \* next_available_port raised; the database commit stands
                /\ UNCHANGED <<services, keyrefs>>
                /\ last' = [op |-> "import", bundle |-> bundle, raised |-> TRUE,
                            consulted |-> TRUE, existing |-> None,
                            deleted_keys |-> 0,
                            service_id |-> None, database_id |-> None,
                            warnings |-> << >>]
           ELSE \E conflicting \in First(ConflictingServices(services, port, bundle.service.name)),
                   existing \in First(ServiceByName(services, bundle.service.name)) :
                    LET svc == _upsert_service(services, existing,
                                               SvcDict(bundle, port, db.id))
                    IN  /\ services' = svc.table
                        /\ keyrefs' = ReplaceKeys(keyrefs, svc.id, bundle.keys)
                        /\ last' = [op |-> "import", bundle |-> bundle,
                                    raised |-> FALSE,
                                    consulted |-> resolved.consulted,
                                    existing |-> existing,
                                    deleted_keys |-> Cardinality(
                                        {k \in keyrefs : k.service_id = svc.id}),
                                    service_id |-> svc.id,
                                    database_id |-> db.id,
                                    warnings |-> ImportWarnings(services, port, conflicting)]

\* import_bundle in the two stretches between which another call can run.
\* First: the database is upserted, the port resolved and the warnings
\* collected; the call ends here when the allocator raises.
import_resolve(c, bundle) ==
    LET db == IF bundle.database # NoDatabase /\ bundle.auto_create_db
              THEN _upsert_database(databases, bundle.database)
              ELSE [table |-> databases, id |-> None]
        resolved == ResolvePort(bundle, services)
        port == resolved.port
    IN  /\ c \notin DOMAIN calls
        /\ databases' = db.table
        /\ UNCHANGED <<services, keyrefs, retired, settings_port, in_use, procs, watcher>>
        /\ IF resolved.consulted /\ port = None
           THEN /\ calls' = calls
                /\ last' = [op |-> "import", bundle |-> bundle, raised |-> TRUE,
                            consulted |-> TRUE, existing |-> None,
                            deleted_keys |-> 0,
                            service_id |-> None, database_id |-> None,
                            warnings |-> << >>]
           ELSE \E conflicting \in First(ConflictingServices(services, port, bundle.service.name)) :
                  /\ calls' = calls @@
                        (c :> [op |-> "import", pc |-> "upsert",
                               bundle |-> bundle, port |-> port,
                               consulted |-> resolved.consulted,
                               database_id |-> db.id,
                               warnings |-> ImportWarnings(services, port, conflicting)])
                  /\ last' = [op |-> "import_resolve", caller |-> c]

\* Second: the service is upserted by name and its keys are replaced.
import_upsert(c) ==
    /\ c \in DOMAIN calls
    /\ calls[c].op = "import"
    /\ LET bundle == calls[c].bundle IN
       \E existing \in First(ServiceByName(services, bundle.service.name)) :
          LET svc == _upsert_service(services, existing,
                                     SvcDict(bundle, calls[c].port, calls[c].database_id))
          IN  /\ services' = svc.table
              /\ keyrefs' = ReplaceKeys(keyrefs, svc.id, bundle.keys)
              /\ last' = [op |-> "import", bundle |-> bundle,
                          raised |-> FALSE,
                          consulted |-> calls[c].consulted,
                          existing |-> existing,
                          deleted_keys |-> Cardinality(
                              {k \in keyrefs : k.service_id = svc.id}),
                          service_id |-> svc.id,
                          database_id |-> calls[c].database_id,
                          warnings |-> calls[c].warnings]
    /\ calls' = [x \in DOMAIN calls \ {c} |-> calls[x]]
    /\ UNCHANGED <<databases, retired, settings_port, in_use, procs, watcher>>

\* --------------------------------------------------------------- supervisor
\* psutil.pid_exists(pid)
pid_exists(pid) == procs[pid] # "none"

\* p.is_running() and p.status() != psutil.STATUS_ZOMBIE
is_live(pid) == procs[pid] = "live"

refresh_status_resets_error(service) ==
    IF service.process_pid = None
    THEN [service EXCEPT !.status = "stopped"]
    ELSE IF pid_exists(service.process_pid) /\ is_live(service.process_pid)
    THEN [service EXCEPT !.status = "running"]
    ELSE [service EXCEPT !.process_pid = None, !.status = "stopped"]

refresh_status_zombie_counts(service) ==
    IF service.process_pid = None
    THEN [service EXCEPT !.status = IF @ = "running" THEN "stopped" ELSE @]
    ELSE IF pid_exists(service.process_pid)
    THEN [service EXCEPT !.status = "running"]
    ELSE [service EXCEPT !.process_pid = None,
                         !.status = IF @ = "running" THEN "stopped" ELSE @]

\* A psutil.Error between pid_exists and the status probe means the process
\* went away meanwhile: it takes the "PID no longer valid" path.
refresh_status(service) ==
    IF service.process_pid = None
    THEN [service EXCEPT !.status = IF @ = "running" THEN "stopped" ELSE @]
    ELSE IF pid_exists(service.process_pid) /\ is_live(service.process_pid)
    THEN [service EXCEPT !.status = "running"]
    ELSE [service EXCEPT !.process_pid = None,
                         !.status = IF @ = "running" THEN "stopped" ELSE @]

\* _service_log_path: "<safe name>-<id>.log"
_service_log_path(service) == <<service.name, service.id>>

StartCommandEmpty_silent(service) ==
    [service EXCEPT !.status = "error"]

\* start_service, "if not service.start_command"
StartCommandEmpty(service) ==
    [service EXCEPT !.status = "error", !.last_error = "start_command is empty"]

\* f":{old_port}" in url, url.replace(f":{old_port}", f":{new_port}")
ReplacePort(url, old_port, new_port) ==
    IF url # None /\ url = old_port THEN new_port ELSE url

\* start_service, "Self-heal": needs_reassign
NeedsReassign(service) ==
    /\ service.port # None
    /\ \/ is_controller_port(service.port)
       \/ is_port_in_use(service.port) /\ service.status # "running"

PortMissing(service) ==
    [service EXCEPT !.status = "error",
                    !.last_error = "start_command requires {PORT} but service.port is not set"]

SpawnFailed(service) ==
    [service EXCEPT !.status = "error", !.last_error = "Failed to start"]

Started_without_local_url(service, pid) ==
    [service EXCEPT !.process_pid = pid,
                    !.process_started_at = TRUE,
                    !.status = "running",
                    !.last_error = "",
                    !.log_path = _service_log_path(service)]

\* start_service after Popen returned
Started(service, pid) ==
    [service EXCEPT !.process_pid = pid,
                    !.process_started_at = TRUE,
                    !.status = "running",
                    !.last_error = "",
                    !.log_path = _service_log_path(service),
                    !.local_url = IF service.port # None /\ @ = None
                                  THEN service.port ELSE @]

\* One way a call of start_service or stop_service can go: the entity it
\* returns (or holds when it raises), the row its commits leave in the store,
\* the process table afterwards, and what it did to the OS.
Outcome(ret, row, ps, raised, spawned, signalled, ran_stop) ==
    [ret |-> ret, row |-> row, procs |-> ps, raised |-> raised,
     spawned |-> spawned, signalled |-> signalled, ran_stop |-> ran_stop,
     \* the port put into the spawned command and its PORT variable
     cmd_port |-> None]

Reassigned_keeps_urls(service, new_port) ==
    [service EXCEPT !.port = new_port]

\* start_service, the self-healing port check: the entity after it.
Reassigned(service, new_port) ==
    [service EXCEPT !.port = new_port,
                    !.local_url = ReplacePort(@, service.port, new_port),
                    !.healthcheck_url = ReplacePort(@, service.port, new_port)]

\* cmd.replace("{PORT}", str(service.port)), env.setdefault("PORT", ...)
CommandPort(service) == service.port

\* start_service from the self-healing check on: r is the refreshed entity,
\* svcs the Service table, in which the session's pending changes to this
\* row are flushed before a query.
StartProceed(r, svcs) ==
    LET new_port == next_available_port([svcs EXCEPT ![r.id] = r],
                                        port_range_start, port_range_end)
    IN
    IF NeedsReassign(r) /\ new_port = None
    THEN {Outcome(r, svcs[r.id], procs, TRUE, None, {}, FALSE)}
    ELSE
    LET h == IF NeedsReassign(r) THEN Reassigned(r, new_port) ELSE r
        row == IF NeedsReassign(r) THEN h ELSE svcs[r.id]
    IN
    \* log_path.open fails
    {Outcome(h, row, procs, TRUE, None, {}, FALSE)}
    \cup
    IF HasPortPlaceholder(h.start_command) /\ h.port = None
    THEN {Outcome(PortMissing(h), row, procs, FALSE, None, {}, FALSE)}
    ELSE {Outcome(SpawnFailed(h), row, procs, FALSE, None, {}, FALSE)}
         \cup
         {[Outcome(Started(h, pid), Started(h, pid),
                   [procs EXCEPT ![pid] = "live"], FALSE, pid, {}, FALSE)
             EXCEPT !.cmd_port = CommandPort(h)]
            : pid \in {p \in Pids : procs[p] = "none"}}

StartOutcomes_skips_running_check(service, svcs) ==
    IF service.start_command = ""
    THEN {Outcome(StartCommandEmpty(service), svcs[service.id], procs,
                  FALSE, None, {}, FALSE)}
    ELSE StartProceed(refresh_status(service), svcs)

\* start_service(session, service)
StartOutcomes(service, svcs) ==
    IF service.start_command = ""
    THEN {Outcome(StartCommandEmpty(service), svcs[service.id], procs,
                  FALSE, None, {}, FALSE)}
    ELSE
    LET r == refresh_status(service) IN
    IF r.status = "running"
    THEN {Outcome(r, svcs[service.id], procs, FALSE, None, {}, FALSE)}
    ELSE StartProceed(r, svcs)

\* What a process can be after a stop command or a terminate/kill: gone,
\* exited but not reaped, or still what it was.
AfterSignal(state) == {"none", "zombie", state}

StopNormalized_keeps_status(service) == service

\* stop_service, the branch for a service that neither runs nor holds a pid
StopNormalized(service) == [service EXCEPT !.status = "stopped"]

\* stop_service from the stop command on: r is the refreshed entity.
StopProceed(r) ==
    LET pid == r.process_pid
        ran == r.stop_command # ""
        stopped == [r EXCEPT !.process_pid = None, !.status = "stopped"]
        \* the process after the stop command, if one is configured
        mid == IF pid = None THEN {"none"}
               ELSE IF ran THEN AfterSignal(procs[pid])
               ELSE {procs[pid]}
    IN  UNION {
          IF pid = None
          THEN {Outcome(stopped, stopped, procs, FALSE, None, {}, ran)}
          ELSE IF m = "none"
          THEN \* _terminate_pid_tree: NoSuchProcess
               {Outcome(stopped, stopped, [procs EXCEPT ![pid] = "none"],
                        FALSE, None, {}, ran)}
          ELSE {Outcome(stopped, stopped, [procs EXCEPT ![pid] = f],
                        FALSE, None, {pid}, ran) : f \in AfterSignal(m)}
          : m \in mid }

StopOutcomes_always_proceeds(service, svcs) ==
    StopProceed(refresh_status(service))

\* stop_service(session, service)
StopOutcomes(service, svcs) ==
    LET r == refresh_status(service) IN
    IF r.status # "running" /\ r.process_pid = None
    THEN {Outcome(StopNormalized(r), StopNormalized(r), procs,
                  FALSE, None, {}, FALSE)}
    ELSE StopProceed(r)

Commit_first_pid_stays(row, loaded, ent) ==
    [f \in DOMAIN row |->
        IF row.process_pid # None THEN row[f]
        ELSE IF ent[f] # loaded[f] THEN ent[f] ELSE row[f]]

\* Session.commit of an entity loaded as `loaded` and changed to `ent`: the
\* UPDATE sets the attributes whose value differs from the loaded one, the
\* others keep what the row has by now.
Commit(row, loaded, ent) ==
    [f \in DOMAIN row |-> IF ent[f] # loaded[f] THEN ent[f] ELSE row[f]]

\* What the recorded process can be after the restart_command ran.
AfterRestartCommand(service) ==
    IF service.process_pid = None THEN {procs}
    ELSE {[procs EXCEPT ![service.process_pid] = f]
            : f \in AfterSignal(procs[service.process_pid])}

\* ------------------------------------------------------------------- inputs
\* ServiceCreate descriptors: who, on which port, with which commands.
\* commands: <<start_command, stop_command>> pairs.
ServiceDescs(names, ports, commands) ==
    {[name |-> n, port |-> p, local_url |-> None, healthcheck_url |-> None,
      start_command |-> c[1], stop_command |-> c[2], restart_command |-> "",
      database_id |-> None] : n \in names, p \in ports, c \in commands}

BundlesOf(descs, requested, auto_assign, key_lists, dbs) ==
    [service : descs, database : dbs, keys : key_lists,
     requested_port : requested, auto_assign_port : auto_assign,
     auto_create_db : {TRUE}]

\* Bundles that differ in how the port is to be resolved.
PortBundles ==
    BundlesOf(ServiceDescs(Names, {None, port_range_start, port_range_start + 1},
                           {<<"run --port {PORT}", "">>}),
              {None, port_range_start + 1}, BOOLEAN, {<< >>}, {NoDatabase})

\* Bundles that only reserve a port.
ReservingBundles ==
    BundlesOf(ServiceDescs(Names, {None}, {<<"run --port {PORT}", "">>}),
              RangePorts, {FALSE}, {<< >>}, {NoDatabase})

\* Bundles that differ in their key list and their database.
KeyBundles ==
    BundlesOf(ServiceDescs(Names, {None}, {<<"run --port {PORT}", "">>}),
              {None}, {FALSE}, KeyLists, {NoDatabase} \cup DatabaseDescs)

\* Bundles that differ in the commands of the service.
CommandBundles ==
    BundlesOf(ServiceDescs({"api"}, {None, port_range_start},
                           {<<"", "">>, <<"run --port {PORT}", "">>,
                            <<"run --port {PORT}", "stop">>}),
              {None}, {FALSE}, {<< >>}, {NoDatabase})

\* Bundles whose service may sit on the controller's port, with URLs that
\* embed a port; "worker" only holds a port of the range.
HealBundles ==
    [service : {[name |-> "api", port |-> p, local_url |-> u,
                 healthcheck_url |-> u, start_command |-> "run --port {PORT}",
                 stop_command |-> "", restart_command |-> "",
                 database_id |-> None]
                  : p \in {None, port_range_start, port_range_start + 1},
                    u \in {None, port_range_start + 1}},
     database : {NoDatabase}, keys : {<< >>}, requested_port : {None},
     auto_assign_port : BOOLEAN, auto_create_db : {TRUE}]
    \cup
    BundlesOf(ServiceDescs({"worker"}, {port_range_start},
                           {<<"run --port {PORT}", "">>}),
              {None}, {FALSE}, {<< >>}, {NoDatabase})

\* Bundles that differ in the start and restart commands of the service.
RestartBundles ==
    [service : {[name |-> "api", port |-> port_range_start, local_url |-> None,
                 healthcheck_url |-> None, start_command |-> c,
                 stop_command |-> "", restart_command |-> r,
                 database_id |-> None]
                  : c \in {"", "run --port {PORT}"}, r \in {"", "restart"}},
     database : {NoDatabase}, keys : {<< >>}, requested_port : {None},
     auto_assign_port : {FALSE}, auto_create_db : {TRUE}]

\* Request handlers that can be in flight at the same time.
Callers == {"first", "second"}

\* PATCH bodies that rename a service.
NamePatches == {[name |-> n] : n \in Names}

\* The bundle of the service that two callers start at once.
RaceBundles ==
    BundlesOf(ServiceDescs({"api"}, {None, port_range_start},
                           {<<"run --port {PORT}", "">>}),
              {None}, {FALSE}, {<< >>}, {NoDatabase})

\* Bundles of two services that ask for a port of their own choosing.
MapBundles ==
    BundlesOf(ServiceDescs(Names, {None}, {<<"run --port {PORT}", "">>}),
              {port_range_start, port_range_start + 1}, {FALSE}, {<< >>},
              {NoDatabase})

\* Bundles that differ in their keys and in having a database.
StoreBundles ==
    BundlesOf(ServiceDescs(Names, {None}, {<<"run --port {PORT}", "">>}),
              {None}, {FALSE}, {<< >>, <<K1>>},
              {NoDatabase, [database_name |-> "maindb", type |-> "sqlite"]})

\* Bundles that differ in their database descriptor, in asking for it to be
\* created and in asking for a port.
DbBundles ==
    [service : ServiceDescs(Names, {None}, {<<"run --port {PORT}", "">>}),
     database : {NoDatabase} \cup DatabaseDescs, keys : {<< >>},
     requested_port : {None}, auto_assign_port : BOOLEAN,
     auto_create_db : BOOLEAN]

\* Bundles of services that leave the choice of the port to the allocator.
AutoBundles ==
    BundlesOf(ServiceDescs(Names, {None}, {<<"run --port {PORT}", "">>}),
              {None}, {TRUE}, {<< >>}, {NoDatabase})

Patches ==
    {[status |-> s] : s \in Statuses}
    \cup {[process_pid |-> p] : p \in {None} \cup Pids}

\* ------------------------------------------------------------ file watcher
\* services/file_watcher.py: one FileWatcher object, the caller of its start()
\* and stop(), and the threads that run its _watch_loop.
MaxThreads == 2
check_interval == 10
join_timeout == 5

ThreadIds == 1..MaxThreads
\* The ZIP files that lie in the watch folder.
Zips == {"app.zip"}

\* A thread that has not been created yet.
NoThread == [at |-> "none", zip |-> ""]

\* FileWatcher.__init__; joining is the caller's position inside stop().
FileWatcher ==
    [running |-> FALSE, thread |-> None, processed_files |-> {},
     threads |-> [t \in ThreadIds |-> NoThread], joining |-> FALSE]

\* The threads that are inside _watch_loop.
ActiveLoops == {t \in ThreadIds : watcher.threads[t].at \notin {"none", "done"}}

\* What extract_and_scan_zip makes of a ZIP that holds a program: the
\* program's default port as port and requested port, URLs on that port.
ZipBundles ==
    {[service |-> [d EXCEPT !.local_url = d.port, !.healthcheck_url = d.port],
      database |-> NoDatabase, keys |-> << >>, requested_port |-> d.port,
      auto_assign_port |-> FALSE, auto_create_db |-> FALSE] :
        d \in ServiceDescs({"app"}, {port_range_start}, {<<"run", "">>})}

\* FileWatcher.start()
FileWatcher_start ==
    /\ ~watcher.joining
    /\ IF watcher.running
       THEN /\ last' = [op |-> "watcher_start", was_running |-> TRUE,
                        spawned |-> FALSE]
            /\ UNCHANGED watcher
       ELSE \E t \in ThreadIds :
            /\ watcher.threads[t] = NoThread
            /\ \A u \in ThreadIds : u < t => watcher.threads[u] # NoThread
            /\ watcher' = [watcher EXCEPT
                    !.running = TRUE, !.thread = t,
                    !.threads[t] = [at |-> "test", zip |-> ""]]
            /\ last' = [op |-> "watcher_start", was_running |-> FALSE,
                        spawned |-> TRUE]
    /\ UNCHANGED <<settings_port, services, keyrefs, databases, in_use, procs,
                   calls, retired>>

\* FileWatcher.stop() up to its join: the flag is cleared, and the caller
\* waits for self.thread if there is one.
FileWatcher_stop ==
    /\ ~watcher.joining
    /\ watcher' = [watcher EXCEPT !.running = FALSE,
                                  !.joining = watcher.thread # None]
    /\ last' = [op |-> "watcher_stop", joining |-> watcher.thread # None]
    /\ UNCHANGED <<settings_port, services, keyrefs, databases, in_use, procs,
                   calls, retired>>

\* self.thread.join(timeout=5) returns: the thread has ended, or the timeout
\* ran out on a thread that sleeps for check_interval or unpacks a ZIP.
FileWatcher_join ==
    /\ watcher.joining
    /\ LET at == watcher.threads[watcher.thread].at
       IN  /\ \/ at = "done"
              \/ at = "sleep" /\ join_timeout < check_interval
              \/ at = "import"
           /\ last' = [op |-> "watcher_join", ended |-> at = "done"]
    /\ watcher' = [watcher EXCEPT !.joining = FALSE]
    /\ UNCHANGED <<settings_port, services, keyrefs, databases, in_use, procs,
                   calls, retired>>

\* _watch_loop: the test of `while self.running`.
_watch_loop(t) ==
    /\ watcher.threads[t].at = "test"
    /\ watcher' = [watcher EXCEPT !.threads[t].at =
                        IF watcher.running THEN "check" ELSE "done"]
    /\ last' = [op |-> "_watch_loop", thread |-> t]
    /\ UNCHANGED <<settings_port, services, keyrefs, databases, in_use, procs,
                   calls, retired>>

\* _check_for_zips: a ZIP that is not in processed_files is found and is
\* about to be handed to _process_zip; with none left the thread sleeps.
_check_for_zips(t) ==
    /\ watcher.threads[t].at = "check"
    /\ IF Zips \ watcher.processed_files = {}
       THEN watcher' = [watcher EXCEPT !.threads[t].at = "sleep"]
       ELSE \E z \in Zips \ watcher.processed_files :
                watcher' = [watcher EXCEPT
                                !.threads[t] = [at |-> "found", zip |-> z]]
    /\ last' = [op |-> "_check_for_zips", thread |-> t]
    /\ UNCHANGED <<settings_port, services, keyrefs, databases, in_use, procs,
                   calls, retired>>

\* _process_zip is entered with the ZIP and records it in processed_files.
_process_zip(t) ==
    /\ watcher.threads[t].at = "found"
    /\ LET z == watcher.threads[t].zip
       IN  /\ watcher' = [watcher EXCEPT
                    !.processed_files = @ \cup {z},
                    !.threads[t].at = "import"]
           /\ last' = [op |-> "_process_zip", thread |-> t, zip |-> z,
                       recorded |-> z \in watcher.processed_files]
    /\ UNCHANGED <<settings_port, services, keyrefs, databases, in_use, procs,
                   calls, retired>>

\* The rest of _process_zip, the ZIP holding a program: the bundle is
\* imported; an exception of the import takes the ZIP out of processed_files.
_process_zip_import(t) ==
    /\ watcher.threads[t].at = "import"
    /\ \E bundle \in ZipBundles :
        /\ import_bundle(bundle)
        /\ watcher' = [watcher EXCEPT
                !.processed_files =
                    IF last'.raised THEN @ \ {watcher.threads[t].zip} ELSE @,
                !.threads[t] = [at |-> "sleep", zip |-> ""]]

\* The rest of _process_zip, the ZIP holding no program (nothing is
\* imported) or failing to unpack (the ZIP leaves processed_files).
_process_zip_skip(t) ==
    /\ watcher.threads[t].at = "import"
    /\ \E failed \in BOOLEAN :
        /\ watcher' = [watcher EXCEPT
                !.processed_files =
                    IF failed THEN @ \ {watcher.threads[t].zip} ELSE @,
                !.threads[t] = [at |-> "sleep", zip |-> ""]]
        /\ last' = [op |-> "_process_zip_skip", thread |-> t, failed |-> failed]
    /\ UNCHANGED <<settings_port, services, keyrefs, databases, in_use, procs,
                   calls, retired>>

\* time.sleep(self.check_interval) returns.
sleep_over(t) ==
    /\ watcher.threads[t].at = "sleep"
    /\ watcher' = [watcher EXCEPT !.threads[t].at = "test"]
    /\ last' = [op |-> "sleep_over", thread |-> t]
    /\ UNCHANGED <<settings_port, services, keyrefs, databases, in_use, procs,
                   calls, retired>>

\* ------------------------------------------------------------------ actions
\* The store of a first run, settings.port as given, and the ports on which
\* something on the host listens already.
InitWith(port, listening) ==
    /\ settings_port = port
    /\ services = << >>
    /\ keyrefs = {}
    /\ databases = << >>
    /\ in_use = listening
    /\ procs = [p \in Pids |-> "none"]
    /\ last = [op |-> "init"]
    /\ calls = << >>
    /\ retired = {}
    /\ watcher = FileWatcher

Init == InitWith(DefaultControllerPort, {})

InitPorts == \E port \in ControllerPorts : InitWith(port, {})

\* The controller inside the port range and a listener on the first port.
InitCrowded == InitWith(port_range_start + 1, {port_range_start})

InitHost ==
    \E listening \in {{}, {port_range_start}} :
        InitWith(DefaultControllerPort, listening)

InitHeal ==
    \E port \in ControllerPorts, listening \in {{}, {port_range_start}} :
        InitWith(port, listening)

\* POST /api/import/bundle
ImportHealBundle == \E bundle \in HealBundles : import_bundle(bundle) /\ UNCHANGED watcher
ImportPortBundle == \E bundle \in PortBundles : import_bundle(bundle) /\ UNCHANGED watcher
ImportReservingBundle == \E bundle \in ReservingBundles : import_bundle(bundle) /\ UNCHANGED watcher
ImportKeyBundle == \E bundle \in KeyBundles : import_bundle(bundle) /\ UNCHANGED watcher
ImportCommandBundle == \E bundle \in CommandBundles : import_bundle(bundle) /\ UNCHANGED watcher
ImportMapBundle == \E bundle \in MapBundles : import_bundle(bundle) /\ UNCHANGED watcher
ImportStoreBundle == \E bundle \in StoreBundles : import_bundle(bundle) /\ UNCHANGED watcher
ImportDbBundle == \E bundle \in DbBundles : import_bundle(bundle) /\ UNCHANGED watcher
ImportRaceBundle == \E bundle \in RaceBundles : import_bundle(bundle) /\ UNCHANGED watcher
ImportRestartBundle == \E bundle \in RestartBundles : import_bundle(bundle) /\ UNCHANGED watcher

\* GET /api/ports/next, and next_available_port called with a range
NextPort ==
    \E start \in RangePorts, end \in (port_range_start - 1)..port_range_end :
        /\ last' = [op |-> "next_port", start |-> start, end |-> end,
                    port |-> next_available_port(services, start, end)]
        /\ UNCHANGED <<calls, retired, settings_port, services, keyrefs, databases, in_use, procs, watcher>>

\* POST /api/services
create_service(service_in) ==
    /\ Cardinality(DOMAIN services) < MaxServices
    /\ LET id == FreshId(services) IN
          /\ services' = (id :> NewService(id, service_in)) @@ services
          /\ last' = [op |-> "create", sid |-> id, ret |-> services'[id]]
    /\ UNCHANGED <<calls, retired, settings_port, keyrefs, databases, in_use, procs, watcher>>

\* DELETE /api/databases/{database_id}
delete_database(database_id) ==
    /\ database_id \in DOMAIN databases
    /\ Cardinality(retired) < MaxRetired
    /\ services' = Unlinked(services, database_id)
    /\ databases' = Without(databases, database_id)
    /\ retired' = retired \cup {database_id}
    /\ last' = [op |-> "delete_database", database_id |-> database_id,
                linked |-> {i \in DOMAIN services :
                              services[i].database_id = database_id}]
    /\ UNCHANGED <<calls, settings_port, keyrefs, in_use, procs, watcher>>

\* DELETE /api/services/{service_id}
delete_service(sid) ==
    /\ sid \in DOMAIN services
    /\ Cardinality(retired) < MaxRetired
    /\ keyrefs' = {k \in keyrefs : k.service_id # sid}
    /\ services' = Without(services, sid)
    /\ retired' = retired \cup {sid}
    /\ last' = [op |-> "delete_service", sid |-> sid,
                deleted_keys |-> Cardinality(keyrefs \ keyrefs')]
    /\ UNCHANGED <<calls, settings_port, databases, in_use, procs, watcher>>

\* POST /api/keys/services/{service_id}, first step: the service is looked up
create_key_load(c, sid, key_in) ==
    /\ c \notin DOMAIN calls
    /\ sid \in DOMAIN services
    /\ Cardinality(keyrefs) < MaxKeys
    /\ calls' = calls @@ (c :> [op |-> "create_key", sid |-> sid,
                                pc |-> "insert", key_in |-> key_in])
    /\ last' = [op |-> "create_key_load", sid |-> sid]
    /\ UNCHANGED <<retired, settings_port, services, keyrefs, databases, in_use, procs, watcher>>

\* create_key, second step: the KeyRef is added and committed
create_key_insert(c) ==
    /\ c \in DOMAIN calls
    /\ calls[c].op = "create_key"
    /\ keyrefs' = InsertKeys(keyrefs, calls[c].sid, <<calls[c].key_in>>)
    /\ calls' = [x \in DOMAIN calls \ {c} |-> calls[x]]
    /\ last' = [op |-> "create_key", sid |-> calls[c].sid]
    /\ UNCHANGED <<retired, settings_port, services, databases, in_use, procs, watcher>>

\* DELETE /api/keys/{key_id}
delete_key(key_id) ==
    /\ \E k \in keyrefs : k.id = key_id
    /\ keyrefs' = {k \in keyrefs : k.id # key_id}
    /\ last' = [op |-> "delete_key", key_id |-> key_id]
    /\ UNCHANGED <<calls, retired, settings_port, services, databases, in_use, procs, watcher>>

\* GET /api/ports/map
get_port_map(start, end) ==
    /\ \E by_port \in ByPort(services) :
          last' = [op |-> "port_map", start |-> start, end |-> end,
                   out |-> port_map(services, by_port, start, end)]
    /\ UNCHANGED <<calls, retired, settings_port, services, keyrefs, databases, in_use, procs, watcher>>

\* GET /api/services/{service_id}
get_service(sid) ==
    /\ sid \in DOMAIN services
    /\ services' = [services EXCEPT ![sid] = refresh_status(@)]
    /\ last' = [op |-> "refresh", sid |-> sid, pre |-> services[sid],
                ret |-> services'[sid]]
    /\ UNCHANGED <<calls, retired, settings_port, keyrefs, databases, in_use, procs, watcher>>

\* PATCH /api/services/{service_id}
update_service(sid, patch) ==
    /\ sid \in DOMAIN services
    /\ services' = [services EXCEPT ![sid] = SetAttrs(@, patch)]
    /\ last' = [op |-> "update", sid |-> sid, ret |-> services'[sid]]
    /\ UNCHANGED <<calls, retired, settings_port, keyrefs, databases, in_use, procs, watcher>>

\* POST /api/services/{service_id}/start
api_start_service(sid) ==
    /\ sid \in DOMAIN services
    /\ \E o \in StartOutcomes(services[sid], services) :
          /\ services' = [services EXCEPT ![sid] = o.row]
          /\ procs' = o.procs
          /\ last' = [op |-> "start", sid |-> sid, pre |-> services[sid],
                      ret |-> o.ret,
                      raised |-> o.raised, spawned |-> o.spawned,
                      signalled |-> o.signalled, ran_stop |-> o.ran_stop,
                      cmd_port |-> o.cmd_port]
    /\ UNCHANGED <<calls, retired, settings_port, keyrefs, databases, in_use, watcher>>

\* POST /api/services/{service_id}/stop
api_stop_service(sid) ==
    /\ sid \in DOMAIN services
    /\ \E o \in StopOutcomes(services[sid], services) :
          /\ services' = [services EXCEPT ![sid] = o.row]
          /\ procs' = o.procs
          /\ last' = [op |-> "stop", sid |-> sid, pre |-> services[sid],
                      ret |-> o.ret,
                      raised |-> o.raised, spawned |-> o.spawned,
                      signalled |-> o.signalled, ran_stop |-> o.ran_stop]
    /\ UNCHANGED <<calls, retired, settings_port, keyrefs, databases, in_use, watcher>>

\* The calls in flight without call c.
Returned(c) == [x \in DOMAIN calls \ {c} |-> calls[x]]

\* What a start that returns without a spawn reports.
StartReturned(sid, pre, ret, raised) ==
    [op |-> "start", sid |-> sid, pre |-> pre, ret |-> ret, raised |-> raised,
     spawned |-> None, signalled |-> {}, ran_stop |-> FALSE, cmd_port |-> None,
     overwrote |-> None]

\* POST /api/services/{service_id}/start in the steps in which it touches
\* the store and the host, so that two calls can interleave.  First step:
\* the service is loaded, its status refreshed and its port healed; the
\* call returns here when the command is empty, the service runs or the
\* allocator has no port.
start_observe(c, sid) ==
    /\ c \notin DOMAIN calls
    /\ sid \in DOMAIN services
    /\ LET service == services[sid]
           r == refresh_status(service)
           new_port == next_available_port([services EXCEPT ![sid] = r],
                                           port_range_start, port_range_end)
           h == IF NeedsReassign(r) THEN Reassigned(r, new_port) ELSE r
       IN
       IF service.start_command = ""
       THEN /\ last' = StartReturned(sid, service, StartCommandEmpty(service), FALSE)
            /\ UNCHANGED <<services, calls>>
       ELSE IF r.status = "running"
       THEN /\ last' = StartReturned(sid, service, r, FALSE)
            /\ UNCHANGED <<services, calls>>
       ELSE IF NeedsReassign(r) /\ new_port = None
       THEN /\ last' = StartReturned(sid, service, r, TRUE)
            /\ UNCHANGED <<services, calls>>
       ELSE /\ services' = IF NeedsReassign(r)
                           THEN [services EXCEPT ![sid] = h]
                           ELSE services
            /\ calls' = calls @@
                  (c :> [op |-> "start", sid |-> sid, pc |-> "spawn",
                         loaded |-> IF NeedsReassign(r) THEN h ELSE service,
                         ent |-> h])
            /\ last' = [op |-> "start_observe", sid |-> sid]
    /\ UNCHANGED <<retired, settings_port, keyrefs, databases, in_use, procs, watcher>>

\* start_service, second step: the log file is opened, the command is built
\* and the process is spawned.
start_spawn(c) ==
    /\ c \in DOMAIN calls
    /\ calls[c].op = "start"
    /\ calls[c].pc = "spawn"
    /\ LET sid == calls[c].sid
           h == calls[c].ent
       IN
       \/ \* log_path.open fails
          /\ last' = StartReturned(sid, calls[c].loaded, h, TRUE)
          /\ calls' = Returned(c)
          /\ procs' = procs
       \/ /\ HasPortPlaceholder(h.start_command) /\ h.port = None
          /\ last' = StartReturned(sid, calls[c].loaded, PortMissing(h), FALSE)
          /\ calls' = Returned(c)
          /\ procs' = procs
       \/ /\ ~(HasPortPlaceholder(h.start_command) /\ h.port = None)
          /\ \/ /\ last' = StartReturned(sid, calls[c].loaded, SpawnFailed(h), FALSE)
                /\ calls' = Returned(c)
                /\ procs' = procs
             \/ \E pid \in {p \in Pids : procs[p] = "none"} :
                   /\ procs' = [procs EXCEPT ![pid] = "live"]
                   /\ calls' = [calls EXCEPT ![c].pc = "commit",
                                             ![c].ent = Started(h, pid)]
                   /\ last' = [op |-> "start_spawn", sid |-> sid]
    /\ UNCHANGED <<retired, settings_port, services, keyrefs, databases, in_use, watcher>>

\* start_service, last step: session.commit, session.refresh, return.
\* overwrote: the pid the row held when this commit replaced it.
start_commit(c) ==
    /\ c \in DOMAIN calls
    /\ calls[c].op = "start"
    /\ calls[c].pc = "commit"
    /\ LET sid == calls[c].sid IN
          /\ services' = [services EXCEPT
                            ![sid] = Commit(@, calls[c].loaded, calls[c].ent)]
          /\ last' = [op |-> "start", sid |-> sid, pre |-> calls[c].loaded,
                      ret |-> services'[sid], raised |-> FALSE,
                      spawned |-> calls[c].ent.process_pid,
                      signalled |-> {}, ran_stop |-> FALSE,
                      cmd_port |-> CommandPort(calls[c].ent),
                      overwrote |-> services[sid].process_pid]
          /\ calls' = Returned(c)
    /\ UNCHANGED <<retired, settings_port, keyrefs, databases, in_use, procs, watcher>>

\* POST /api/services/{service_id}/stop in two steps, so that another call
\* can run in between.  First step: session.get loads the service.
stop_load(c, sid) ==
    /\ c \notin DOMAIN calls
    /\ sid \in DOMAIN services
    /\ calls' = calls @@ (c :> [op |-> "stop", sid |-> sid, pc |-> "stop",
                                loaded |-> services[sid]])
    /\ last' = [op |-> "stop_load", sid |-> sid]
    /\ UNCHANGED <<retired, settings_port, services, keyrefs, databases,
                   in_use, procs, watcher>>

\* Second step: stop_service on the entity as loaded, up to its commit.
stop_run(c) ==
    /\ c \in DOMAIN calls
    /\ calls[c].op = "stop"
    /\ LET sid == calls[c].sid IN
       \E o \in StopOutcomes(calls[c].loaded, services) :
          /\ services' = [services EXCEPT
                            ![sid] = Commit(@, calls[c].loaded, o.row)]
          /\ procs' = o.procs
          /\ last' = [op |-> "stop", sid |-> sid, pre |-> calls[c].loaded,
                      ret |-> services'[sid],
                      raised |-> o.raised, spawned |-> o.spawned,
                      signalled |-> o.signalled, ran_stop |-> o.ran_stop]
    /\ calls' = Returned(c)
    /\ UNCHANGED <<retired, settings_port, keyrefs, databases, in_use, watcher>>

\* POST /api/services/{service_id}/restart: the service is loaded and its
\* restart_command, if it has one, is run; when the command succeeds the
\* call commits and returns, else it goes on to stop and start.
restart_begin(c, sid) ==
    /\ c \notin DOMAIN calls
    /\ sid \in DOMAIN services
    /\ LET service == services[sid]
           fallback == c :> [op |-> "restart", sid |-> sid, pc |-> "stop",
                             ent |-> service]
       IN
       IF service.restart_command = ""
       THEN /\ calls' = calls @@ fallback
            /\ procs' = procs
            /\ last' = [op |-> "restart_begin", sid |-> sid]
       ELSE \E ps \in AfterRestartCommand(service), succeeded \in BOOLEAN :
              /\ procs' = ps
              /\ IF succeeded
                 THEN /\ calls' = calls
                      /\ last' = [op |-> "restart", sid |-> sid,
                                  pre |-> service, ret |-> service,
                                  raised |-> FALSE, spawned |-> None,
                                  ran_restart |-> TRUE, cmd_port |-> None]
                 ELSE /\ calls' = calls @@ fallback
                      /\ last' = [op |-> "restart_begin", sid |-> sid]
    /\ UNCHANGED <<retired, settings_port, services, keyrefs, databases, in_use, watcher>>

restart_stop_skipped(c) ==
    /\ c \in DOMAIN calls
    /\ calls[c].op = "restart"
    /\ calls[c].pc = "stop"
    /\ calls' = [calls EXCEPT ![c].pc = "start"]
    /\ last' = [op |-> "restart_stop", sid |-> calls[c].sid,
                signalled |-> {}, ran_stop |-> FALSE]
    /\ UNCHANGED <<retired, settings_port, services, keyrefs, databases,
                   in_use, procs, watcher>>

\* restart_service, stop_service(session, service) on the entity as loaded
restart_stop(c) ==
    /\ c \in DOMAIN calls
    /\ calls[c].op = "restart"
    /\ calls[c].pc = "stop"
    /\ LET sid == calls[c].sid IN
       \E o \in StopOutcomes(calls[c].ent, services) :
          /\ services' = [services EXCEPT
                            ![sid] = Commit(@, calls[c].ent, o.row)]
          /\ procs' = o.procs
          /\ calls' = [calls EXCEPT ![c].pc = "start"]
          /\ last' = [op |-> "restart_stop", sid |-> sid,
                      signalled |-> o.signalled, ran_stop |-> o.ran_stop]
    /\ UNCHANGED <<retired, settings_port, keyrefs, databases, in_use, watcher>>

\* restart_service, session.refresh(service) and start_service
restart_start(c) ==
    /\ c \in DOMAIN calls
    /\ calls[c].op = "restart"
    /\ calls[c].pc = "start"
    /\ LET sid == calls[c].sid IN
       \E o \in StartOutcomes(services[sid], services) :
          /\ services' = [services EXCEPT ![sid] = o.row]
          /\ procs' = o.procs
          /\ calls' = Returned(c)
          /\ last' = [op |-> "restart", sid |-> sid, pre |-> services[sid],
                      ret |-> o.ret, raised |-> o.raised,
                      spawned |-> o.spawned,
                      ran_restart |-> calls[c].ent.restart_command # "",
                      cmd_port |-> o.cmd_port]
    /\ UNCHANGED <<retired, settings_port, keyrefs, databases, in_use, watcher>>

\* POST /api/ports/resolve-conflicts.  Step 1 commits when its loop is
\* through, step 2 likewise; a call that raises leaves what was committed.
resolve_conflicts ==
    LET one == ReassignAll(services, services, Duplicates(services), {})
        \* step 2 meets the services in the order of creation
        flat == [i \in DOMAIN one.table |-> [one.table[i] EXCEPT !.port = None]]
        two == ReassignAll(one.table, flat, Squatted(one.table), {})
    IN  /\ services' = IF one.raised THEN services ELSE two.table
        /\ last' = [op |-> "resolve_conflicts",
                    raised |-> one.raised \/ two.raised,
                    duplicates |-> IF one.raised THEN {} ELSE one.moved,
                    squatted |-> IF one.raised THEN {} ELSE two.moved]
        /\ UNCHANGED <<calls, retired, settings_port, keyrefs, databases,
                       in_use, procs, watcher>>

\* _startup with auto_start_all_on_boot, before any request is served: the
\* services are selected into one session.
boot_load ==
    /\ calls = << >>
    /\ calls' = "boot" :> [op |-> "boot", pending |-> DOMAIN services]
    /\ last' = [op |-> "boot_load"]
    /\ UNCHANGED <<retired, settings_port, services, keyrefs, databases,
                   in_use, procs, watcher>>

\* One round of the loop (the select has no ORDER BY): start_service for
\* a service with a start_command whose status is not "running"; what
\* start_service raises is caught and counted.  The session's commit after
\* the loop writes the entities as start_service left them.
boot_visit(sid) ==
    /\ "boot" \in DOMAIN calls
    /\ sid \in calls["boot"].pending
    /\ calls' = [calls EXCEPT !["boot"].pending = @ \ {sid}]
    /\ IF services[sid].start_command # "" /\ services[sid].status # "running"
       THEN \E o \in StartOutcomes(services[sid], services) :
               /\ services' = [services EXCEPT ![sid] = o.ret]
               /\ procs' = o.procs
               /\ last' = [op |-> "boot_visit", sid |-> sid, tried |-> TRUE,
                           raised |-> o.raised, spawned |-> o.spawned]
       ELSE /\ UNCHANGED <<services, procs>>
            /\ last' = [op |-> "boot_visit", sid |-> sid, tried |-> FALSE,
                        raised |-> FALSE, spawned |-> None]
    /\ UNCHANGED <<retired, settings_port, keyrefs, databases, in_use, watcher>>

\* session.commit() after the loop; the routine is through.
boot_commit ==
    /\ "boot" \in DOMAIN calls
    /\ calls["boot"].pending = {}
    /\ calls' = << >>
    /\ last' = [op |-> "boot"]
    /\ UNCHANGED <<retired, settings_port, services, keyrefs, databases,
                   in_use, procs, watcher>>

\* Something on the host starts or stops listening on a port.
HostPortFlip ==
    \E port \in RangePorts :
        /\ in_use' = IF port \in in_use THEN in_use \ {port} ELSE in_use \cup {port}
        /\ last' = [op |-> "env"]
        /\ UNCHANGED <<calls, retired, settings_port, services, keyrefs, databases, procs, watcher>>

\* A process exits (and stays a zombie until reaped) or is reaped.
ProcessExit ==
    \E pid \in Pids :
        /\ procs[pid] # "none"
        /\ \E f \in {"none", "zombie"} :
              /\ f # procs[pid]
              /\ procs' = [procs EXCEPT ![pid] = f]
        /\ last' = [op |-> "env"]
        /\ UNCHANGED <<calls, retired, settings_port, services, keyrefs, databases, in_use, watcher>>

GetService == \E sid \in DOMAIN services : get_service(sid)
UpdateService == \E sid \in DOMAIN services, patch \in Patches : update_service(sid, patch)
StartService == \E sid \in DOMAIN services : api_start_service(sid)
StopService == \E sid \in DOMAIN services : api_stop_service(sid)

\* The port allocator over a registry built by imports.
NextPorts == ImportReservingBundle \/ HostPortFlip \/ NextPort
SpecPorts == InitPorts /\ [][NextPorts]_vars

\* The importer's port resolution, upsert and warnings.
NextImport == ImportPortBundle \/ HostPortFlip
SpecImport == Init /\ [][NextImport]_vars

\* The importer's key and database handling.
NextKeys == ImportKeyBundle
SpecKeys == Init /\ [][NextKeys]_vars

\* The supervisor's lifecycle operations on an imported service.
RestartBegin == \E sid \in DOMAIN services : restart_begin("first", sid)
RestartStop == restart_stop("first")
RestartStart == restart_start("first")

NextRestart ==
    \/ ImportRestartBundle
    \/ StartService
    \/ RestartBegin
    \/ RestartStop
    \/ RestartStart
    \/ ProcessExit

SpecRestart == InitHost /\ [][NextRestart]_vars

\* The controller serves requests, goes down and comes up again with
\* auto-start on boot; processes exit while it serves or is down.
Serving == "boot" \notin DOMAIN calls
BootVisit == \E sid \in DOMAIN services : boot_visit(sid)

NextBoot ==
    \/ Serving /\ ImportCommandBundle
    \/ Serving /\ StartService
    \/ Serving /\ ProcessExit
    \/ boot_load
    \/ BootVisit
    \/ boot_commit

SpecBoot == InitHost /\ [][NextBoot]_vars

\* One restart call at a time on an imported service, with no other
\* lifecycle call in between its steps.
NextRestartAlone ==
    \/ ImportRestartBundle
    \/ RestartBegin
    \/ RestartStop
    \/ RestartStart
    \/ ProcessExit

SpecRestartAlone == InitHost /\ [][NextRestartAlone]_vars

CreateService ==
    \E service_in \in ServiceDescs(Names, {None}, {<<"run --port {PORT}", "">>}) :
        create_service(service_in)
RenameService ==
    \E sid \in DOMAIN services, patch \in NamePatches : update_service(sid, patch)

\* POST /api/import/bundle; one that adds a row, while the registry may grow
ImportIntoRegistry ==
    \E bundle \in ReservingBundles :
        /\ \/ ServiceByName(services, bundle.service.name) # {}
           \/ Cardinality(DOMAIN services) < MaxServices
        /\ import_bundle(bundle)
        /\ UNCHANGED watcher

NextRegistry ==
    \/ ImportIntoRegistry
    \/ CreateService
    \/ RenameService

SpecRegistry == Init /\ [][NextRegistry]_vars

StartObserve ==
    \E c \in Callers, sid \in DOMAIN services : start_observe(c, sid)
StartSpawn == \E c \in Callers : start_spawn(c)
StartCommit == \E c \in Callers : start_commit(c)

NextRace ==
    \/ ImportRaceBundle
    \/ StartObserve
    \/ StartSpawn
    \/ StartCommit

SpecRace == InitHost /\ [][NextRace]_vars

\* One caller starts the service while another stops it.
StartObserveFirst == \E sid \in DOMAIN services : start_observe("first", sid)
StartSpawnFirst == start_spawn("first")
StartCommitFirst == start_commit("first")
StopLoad == \E sid \in DOMAIN services : stop_load("second", sid)
StopRun == stop_run("second")

NextStartStop ==
    \/ ImportRaceBundle
    \/ StartObserveFirst
    \/ StartSpawnFirst
    \/ StartCommitFirst
    \/ StopLoad
    \/ StopRun
    \/ ProcessExit

SpecStartStop == Init /\ [][NextStartStop]_vars

GetPortMap ==
    \E start \in RangePorts, end \in (port_range_start - 1)..port_range_end :
        get_port_map(start, end)
\* PATCH of the status alone
SetStatus ==
    \E sid \in DOMAIN services, s \in {"stopped", "running"} :
        update_service(sid, [status |-> s])

NextPortMap ==
    \/ ImportMapBundle
    \/ SetStatus
    \/ HostPortFlip
    \/ GetPortMap

SpecPortMap == Init /\ [][NextPortMap]_vars

\* Two callers import auto-assigning bundles at once.
ImportResolve ==
    \E c \in Callers, bundle \in AutoBundles : import_resolve(c, bundle)
ImportUpsert == \E c \in Callers : import_upsert(c)

NextImportRace ==
    \/ ImportResolve
    \/ ImportUpsert
    \/ HostPortFlip

SpecImportRace == Init /\ [][NextImportRace]_vars

\* The resolution of port conflicts among imported and started services.
NextResolve ==
    \/ ImportMapBundle
    \/ StartService
    \/ GetService
    \/ resolve_conflicts

SpecResolve == InitHeal /\ [][NextResolve]_vars

DeleteDatabase == \E database_id \in DOMAIN databases : delete_database(database_id)
DeleteService == \E sid \in DOMAIN services : delete_service(sid)
CreateKeyLoad == \E sid \in DOMAIN services : create_key_load("first", sid, K2)
CreateKeyInsert == create_key_insert("first")
DeleteKey == \E k \in keyrefs : delete_key(k.id)

NextStore ==
    \/ ImportStoreBundle
    \/ DeleteDatabase
    \/ DeleteService

SpecStore == Init /\ [][NextStore]_vars

\* The importer's database handling, on a host where ports run out.
NextDatabases ==
    \/ ImportDbBundle
    \/ DeleteDatabase

SpecDatabases == InitCrowded /\ [][NextDatabases]_vars

NextKeyRefs ==
    \/ ImportStoreBundle
    \/ DeleteService
    \/ CreateKeyLoad
    \/ CreateKeyInsert
    \/ DeleteKey

SpecKeyRefs == Init /\ [][NextKeyRefs]_vars

NextHeal ==
    \/ ImportHealBundle
    \/ StartService

SpecHeal == InitHeal /\ [][NextHeal]_vars

NextLifecycle ==
    \/ ImportCommandBundle
    \/ GetService
    \/ UpdateService
    \/ StartService
    \/ StopService
    \/ ProcessExit
SpecLifecycle == InitHost /\ [][NextLifecycle]_vars

\* ------------------------------------------------------------------- claims
\* The ports of start..end that no Service row holds, that are not the
\* controller's own port and that accept no connection.
FreePorts(start, end) ==
    {q \in start..end :
        /\ q # settings_port
        /\ \A i \in DOMAIN services : services[i].port # q
        /\ q \notin in_use}

\* C1: right after refresh_status returned, the service's status is running
\* if and only if its process_pid is set and names a process that is alive
\* and not a zombie.
C1_RefreshAgreesWithProcessTable ==
    last.op = "refresh" =>
        (last.ret.status = "running"
            <=> (/\ last.ret.process_pid # None
                 /\ procs[last.ret.process_pid] = "live"))

\* A running service whose process became a zombie was refreshed.
C1_Witness ==
    /\ last.op = "refresh"
    /\ last.pre.status = "running"
    /\ last.pre.process_pid # None
    /\ procs[last.pre.process_pid] = "zombie"
    /\ last.ret.status = "stopped"
    /\ last.ret.process_pid = None

\* C2: a port returned by next_available_port over [start, end] is the
\* lowest port of the range that is neither reserved nor in use, so the
\* registry and the host's TCP state determine it.
C2_LowestFreePort ==
    (last.op = "next_port" /\ last.port # None) =>
        /\ last.port \in FreePorts(last.start, last.end)
        /\ \A q \in FreePorts(last.start, last.end) : last.port <= q

\* The first port is reserved by a service, the second is in use, the third
\* is returned.
C2_Witness ==
    /\ last.op = "next_port"
    /\ last.start = port_range_start
    /\ last.end = port_range_start + 2
    /\ \E i \in DOMAIN services : services[i].port = port_range_start
    /\ port_range_start + 1 \in in_use
    /\ last.port = port_range_start + 2

\* C3: next_available_port fails exactly when every port of [start, end] is
\* reserved or in use (an empty range included).
C3_FailsIffRangeExhausted ==
    last.op = "next_port" =>
        (last.port = None <=> FreePorts(last.start, last.end) = {})

\* The first port is reserved, the other two are in use: the call fails.
C3_Witness ==
    /\ last.op = "next_port"
    /\ last.start = port_range_start
    /\ last.end = port_range_start + 2
    /\ \E i \in DOMAIN services : services[i].port = port_range_start
    /\ {port_range_start + 1, port_range_start + 2} \subseteq in_use
    /\ last.port = None

\* The rows of a Service table that carry a name.
RowsNamed(svcs, name) == {i \in DOMAIN svcs : svcs[i].name = name}

\* The key descriptor a KeyRef row was inserted from.
KeyContent(k) ==
    [key_name |-> k.key_name, env_var |-> k.env_var, description |-> k.description]

\* C4: an import whose service name is the name of one existing row returns
\* that row's id and leaves exactly that one row under the name; importing
\* the same bundle again returns the same id.
C4_ImportUpsertsByName ==
    [][ (last'.op = "import" /\ ~last'.raised) =>
          LET name == last'.bundle.service.name IN
          /\ Cardinality(RowsNamed(services, name)) = 1 =>
                /\ last'.service_id \in RowsNamed(services, name)
                /\ RowsNamed(services', name) = RowsNamed(services, name)
                /\ DOMAIN services' = DOMAIN services
          /\ (last.op = "import" /\ ~last.raised /\ last.bundle = last'.bundle) =>
                last'.service_id = last.service_id
      ]_vars

\* A bundle named like an existing row was imported and updated that row.
C4_Witness ==
    /\ last.op = "import"
    /\ ~last.raised
    /\ last.existing # None
    /\ last.service_id = last.existing
    /\ RowsNamed(services, last.bundle.service.name) = {last.existing}
    /\ services[last.existing].port = last.bundle.requested_port
    /\ Cardinality(DOMAIN services) = 2

\* C5: after an import the KeyRef rows of the imported service are exactly
\* the bundle's key list, one row per entry and nothing else.
C5_KeysAreTheBundlesKeys ==
    (last.op = "import" /\ ~last.raised) =>
        LET rows == {k \in keyrefs : k.service_id = last.service_id}
            keys == last.bundle.keys
        IN  /\ Cardinality(rows) = Len(keys)
            /\ {KeyContent(k) : k \in rows} = {keys[i] : i \in 1..Len(keys)}

\* An empty key list was imported for a service that had keys: none is left.
C5_Witness ==
    /\ last.op = "import"
    /\ ~last.raised
    /\ last.existing # None
    /\ last.deleted_keys > 0
    /\ last.bundle.keys = << >>
    /\ {k \in keyrefs : k.service_id = last.service_id} = {}
    /\ keyrefs # {}

\* C6 as stated: start_service on an empty start_command returns status
\* error with a last_error, spawns nothing, and the returned entity has no
\* pid, whatever the service's state was.
C6_EmptyCommandReturnsNoPid ==
    (last.op = "start" /\ last.pre.start_command = "") =>
        /\ last.ret.status = "error"
        /\ last.ret.last_error # ""
        /\ last.spawned = None
        /\ last.ret.process_pid = None

\* C6 amended: start_service on an empty start_command returns status error
\* with a last_error, spawns and signals nothing, and records no pid: the
\* returned entity carries the pid that was recorded before the call.
C6_EmptyCommandRecordsNoPid ==
    [][ (last'.op = "start" /\ services[last'.sid].start_command = "") =>
          /\ last'.ret.status = "error"
          /\ last'.ret.last_error # ""
          /\ ~last'.raised
          /\ last'.spawned = None
          /\ procs' = procs
          /\ last'.ret.process_pid = services[last'.sid].process_pid
      ]_vars

\* A running service with a live pid and an empty start_command was started.
C6_Witness ==
    /\ last.op = "start"
    /\ last.pre.start_command = ""
    /\ last.pre.status = "running"
    /\ last.pre.process_pid # None
    /\ procs[last.pre.process_pid] = "live"
    /\ last.ret.status = "error"
    /\ last.ret.process_pid = last.pre.process_pid

\* C7: stop_service on a stopped service without a pid changes nothing:
\* the row and the returned entity are the row as it was, no process is
\* signalled and no stop command is run; so stopping again changes nothing.
C7_StopOfStoppedIsNoOp ==
    [][ ( /\ last'.op = "stop"
          /\ services[last'.sid].status = "stopped"
          /\ services[last'.sid].process_pid = None ) =>
          /\ services' = services
          /\ last'.ret = services[last'.sid]
          /\ procs' = procs
          /\ last'.signalled = {}
          /\ ~last'.ran_stop
      ]_vars

\* A stopped service with a stop command and no pid was stopped.
C7_Witness ==
    /\ last.op = "stop"
    /\ last.pre.status = "stopped"
    /\ last.pre.process_pid = None
    /\ last.pre.stop_command # ""
    /\ last.ret.status = "stopped"
    /\ last.ret.process_pid = None
    /\ \E pid \in Pids : procs[pid] = "live"

\* C8: an import under a name no row carries adds exactly one row, with an
\* id no row had, status stopped, no pid and the requested port when one is
\* requested; if no row held the new row's port and nothing listens on it,
\* no warning is returned.
C8_ImportCreatesStoppedService ==
    [][ ( /\ last'.op = "import"
          /\ ~last'.raised
          /\ RowsNamed(services, last'.bundle.service.name) = {} ) =>
          LET sid == last'.service_id IN
          /\ sid \notin DOMAIN services
          /\ DOMAIN services' = DOMAIN services \cup {sid}
          /\ \A i \in DOMAIN services : services'[i] = services[i]
          /\ services'[sid].name = last'.bundle.service.name
          /\ services'[sid].status = "stopped"
          /\ services'[sid].process_pid = None
          /\ last'.bundle.requested_port # None =>
                services'[sid].port = last'.bundle.requested_port
          /\ ( /\ \A i \in DOMAIN services : services[i].port # services'[sid].port
               /\ services'[sid].port \notin in_use ) =>
                last'.warnings = << >>
      ]_vars

\* A bundle requesting a port was imported into an empty registry.
C8_Witness ==
    /\ last.op = "import"
    /\ ~last.raised
    /\ last.existing = None
    /\ last.bundle.requested_port # None
    /\ DOMAIN services = {last.service_id}
    /\ services[last.service_id].port = last.bundle.requested_port
    /\ services[last.service_id].status = "stopped"
    /\ last.warnings = << >>

\* The port a bundle names itself: requested_port, else the service's port.
NamedPort(bundle) ==
    IF bundle.requested_port # None THEN bundle.requested_port
    ELSE bundle.service.port

\* C9: when the port a bundle names is the port of a row with another name,
\* the import succeeds, stores that port, leaves the other row's port alone
\* and returns a warning naming such a row; when no row with another name
\* holds the port, no "already reserved" warning is returned.
C9_ReservedWarningNamesOtherService ==
    [][ (last'.op = "import" /\ ~last'.raised) =>
          LET bundle == last'.bundle
              port == services'[last'.service_id].port
              holders == {i \in DOMAIN services :
                            /\ services[i].port = port
                            /\ services[i].name # bundle.service.name}
              reserved == {i \in 1..Len(last'.warnings) :
                            last'.warnings[i].kind = "reserved"}
          IN  /\ NamedPort(bundle) # None => port = NamedPort(bundle)
              /\ (port # None /\ holders # {}) =>
                    /\ Cardinality(reserved) = 1
                    /\ \A i \in reserved :
                          /\ last'.warnings[i].port = port
                          /\ last'.warnings[i].by \in {services[h].name : h \in holders}
                    /\ \A h \in holders : services'[h].port = port
              /\ (port = None \/ holders = {}) => reserved = {}
      ]_vars

\* "worker" was imported on the port "api" holds: one warning names "api".
C9_Witness ==
    /\ last.op = "import"
    /\ ~last.raised
    /\ last.bundle.service.name = "worker"
    /\ \E i \in DOMAIN services :
          /\ services[i].name = "api"
          /\ services[i].port = services[last.service_id].port
    /\ services[last.service_id].port = last.bundle.requested_port
    /\ last.warnings = <<[kind |-> "reserved", port |-> last.bundle.requested_port,
                          by |-> "api"]>>

\* C10: the stored port is requested_port if set, else the service's own
\* port if set, else the allocator's lowest free port if auto_assign_port,
\* else None; the allocator is consulted in the third case only, and the
\* import fails only when the allocator finds no free port.
C10_PortResolutionOrder ==
    [][ last'.op = "import" =>
          LET bundle == last'.bundle
              third == /\ bundle.requested_port = None
                       /\ bundle.service.port = None
                       /\ bundle.auto_assign_port
              free == FreePorts(port_range_start, port_range_end)
          IN  /\ last'.consulted <=> third
              /\ last'.raised <=> (third /\ free = {})
              /\ ~last'.raised =>
                    services'[last'.service_id].port =
                        IF bundle.requested_port # None THEN bundle.requested_port
                        ELSE IF bundle.service.port # None THEN bundle.service.port
                        ELSE IF bundle.auto_assign_port THEN SetMin(free)
                        ELSE None
      ]_vars

\* A bundle with both a requested port and a different service port was
\* imported: the requested port is stored.
C10_Witness ==
    /\ last.op = "import"
    /\ ~last.raised
    /\ last.bundle.requested_port # None
    /\ last.bundle.service.port # None
    /\ last.bundle.service.port # last.bundle.requested_port
    /\ ~last.consulted
    /\ services[last.service_id].port = last.bundle.requested_port

RowPorts(svcs) == {svcs[i].port : i \in DOMAIN svcs} \ {None}

\* C12: reserved_ports is always the controller's own port together with
\* every port a Service row holds, and a port that the allocator handed to
\* an auto-assigning import or to the self-healing check of a start is
\* neither the controller's own port nor the port of a Service row that
\* existed when the call came in.
C12_AssignedPortIsNotReserved ==
    [][/\ reserved_ports(services) = {settings_port} \cup RowPorts(services)
       /\ reserved_ports(services') = {settings_port} \cup RowPorts(services')
       /\ (last'.op = "import" /\ last'.consulted /\ ~last'.raised)
            => services'[last'.service_id].port
                 \notin {None, settings_port} \cup RowPorts(services)
       /\ (last'.op = "start" /\ last'.ret.port # last'.pre.port)
            => /\ last'.ret.port \notin {None, settings_port} \cup RowPorts(services)
               /\ services'[last'.sid].port = last'.ret.port]_vars

\* An auto-assigning import got the third port of the range: the first is
\* another service's, the second the controller's own.
C12_Witness ==
    /\ last.op = "import"
    /\ last.consulted
    /\ ~last.raised
    /\ settings_port = port_range_start + 1
    /\ \E i \in DOMAIN services :
          /\ i # last.service_id
          /\ services[i].port = port_range_start
    /\ services[last.service_id].port = port_range_start + 2

\* C13 as stated: a start of a service whose recorded pid names a live
\* process returns status running with the same pid and port, spawns
\* nothing and leaves the row as it was, whatever the service's commands.
C13_StartOfLiveServiceIsNoOp ==
    [][\A sid \in DOMAIN services :
         (/\ last'.op = "start" /\ last'.sid = sid
          /\ services[sid].process_pid # None
          /\ is_live(services[sid].process_pid))
         => /\ ~last'.raised
            /\ last'.ret.status = "running"
            /\ last'.ret.process_pid = services[sid].process_pid
            /\ last'.ret.port = services[sid].port
            /\ last'.spawned = None
            /\ services'[sid] = services[sid]
            /\ procs' = procs]_vars

\* C13: a start of a service with a start_command whose recorded pid names
\* a live process returns status running with the same pid and port,
\* spawns nothing and leaves the row as it was; with an empty start_command
\* it returns status error instead, the pid, the port and the row as they
\* were.
C13_StartOfLiveServiceWithCommandIsNoOp ==
    [][\A sid \in DOMAIN services :
         (/\ last'.op = "start" /\ last'.sid = sid
          /\ services[sid].process_pid # None
          /\ is_live(services[sid].process_pid))
         => /\ ~last'.raised
            /\ last'.ret.status =
                  IF services[sid].start_command = "" THEN "error" ELSE "running"
            /\ last'.ret.process_pid = services[sid].process_pid
            /\ last'.ret.port = services[sid].port
            /\ last'.spawned = None
            /\ services'[sid] = services[sid]
            /\ procs' = procs]_vars

\* A start returned running for a service that has a start_command, a
\* live pid and a busy port, and spawned nothing.
C13_Witness ==
    /\ last.op = "start"
    /\ last.pre.start_command # ""
    /\ last.pre.process_pid # None
    /\ is_live(last.pre.process_pid)
    /\ last.pre.port \in in_use
    /\ last.ret.status = "running"
    /\ last.spawned = None
    /\ services[last.sid] = last.pre

\* C14: every stop that returns leaves process_pid null and status stopped
\* in the store and on the returned entity, with or without a stop_command
\* and whatever became of the process.
C14_StopPersistsStopped ==
    [][\A sid \in DOMAIN services :
         (last'.op = "stop" /\ last'.sid = sid /\ ~last'.raised)
         => /\ services'[sid].process_pid = None
            /\ services'[sid].status = "stopped"
            /\ last'.ret = services'[sid]]_vars

\* A stop ran the stop_command and signalled the process, the process is
\* alive all the same, and the row says stopped with no pid.
C14_Witness ==
    /\ last.op = "stop"
    /\ last.ran_stop
    /\ last.pre.process_pid \in last.signalled
    /\ is_live(last.pre.process_pid)
    /\ services[last.sid].process_pid = None
    /\ services[last.sid].status = "stopped"

\* C15 as stated: a start, a stop or a restart never raises to its caller.
C15_LifecycleNeverRaises ==
    last.op \in {"start", "stop", "restart"} => ~last.raised

\* C16 as stated: when a start through the API has failed (empty
\* start_command, {PORT} without a port, spawn failure), the row in the
\* store has status error and a last_error.
C16_FailedStartIsPersisted ==
    (/\ last.op = "start"
     /\ ~last.raised
     /\ last.ret.status = "error")
    => /\ services[last.sid].status = "error"
       /\ services[last.sid].last_error # ""

\* C17 as stated: in the store, a Service whose status is running has a
\* process_pid.
C17_RunningHasPid ==
    \A sid \in DOMAIN services :
        services[sid].status = "running" => services[sid].process_pid # None

\* C18 as stated: no two Service rows of the store have the same name.
C18_ServiceNamesAreUnique ==
    \A i, j \in DOMAIN services :
        services[i].name = services[j].name => i = j

\* The recorded pid of the service names a live process.
HasLivePid(service) ==
    service.process_pid # None /\ is_live(service.process_pid)

\* C19 as stated: a status of error is changed to stopped or running by a
\* start only (not by a stop, a refreshing read or an import of the same
\* name), and a status becomes error only from stopped and by a start.
\* A PATCH of the status is not counted.
C19_ErrorIsAbsorbingUntilStart ==
    [][\A sid \in DOMAIN services :
         last'.op # "update" =>
           /\ (services[sid].status = "error"
                  /\ services'[sid].status \in {"stopped", "running"})
               => last'.op = "start"
           /\ (services[sid].status # "error"
                  /\ services'[sid].status = "error")
               => (last'.op = "start" /\ services[sid].status = "stopped")]_vars

\* C19: a status of error stays through a refreshing read as long as the
\* recorded pid names no live process; it is left by a start that spawns
\* (running), a stop (stopped), an import of the same name (stopped), a
\* refreshing read that finds the recorded pid alive (running) or a PATCH;
\* and a start, a stop or a refreshing read returns status error for a
\* service that was not in error only as a start that spawned nothing.
C19_ErrorIsLeftByStartStopImportOrLivePid ==
    [][\A sid \in DOMAIN services :
         /\ (last'.op = "refresh" /\ last'.sid = sid
                /\ services[sid].status = "error"
                /\ ~HasLivePid(services[sid]))
             => services'[sid].status = "error"
         /\ (services[sid].status = "error" /\ services'[sid].status # "error")
             => \/ last'.op = "start" /\ last'.sid = sid
                     /\ last'.spawned # None
                     /\ services'[sid].status = "running"
                \/ last'.op = "stop" /\ last'.sid = sid
                     /\ services'[sid].status = "stopped"
                \/ last'.op = "import" /\ last'.service_id = sid
                     /\ services'[sid].status = "stopped"
                \/ last'.op = "refresh" /\ last'.sid = sid
                     /\ HasLivePid(services[sid])
                     /\ services'[sid].status = "running"
                \/ last'.op = "update" /\ last'.sid = sid
         /\ (last'.op \in {"start", "stop", "refresh"} /\ last'.sid = sid
                /\ services[sid].status # "error"
                /\ last'.ret.status = "error")
             => (last'.op = "start" /\ last'.spawned = None)]_vars

\* A stop of a service in status error, with no pid, left it stopped.
C19_Witness ==
    /\ last.op = "stop"
    /\ last.pre.status = "error"
    /\ last.pre.process_pid = None
    /\ services[last.sid].status = "stopped"

\* C20: starts of one service do not exclude each other.  The commit of a
\* start that found the service stopped and has spawned records that
\* start's own pid with status running, whatever pid the row holds by then,
\* and ends no process (the last write wins), so that the child of an
\* earlier commit lives on unrecorded.
C20_LastStartCommitWins ==
    [][\A c \in DOMAIN calls :
         (/\ calls[c].op = "start" /\ calls[c].pc = "commit"
          /\ c \notin DOMAIN calls'
          /\ calls[c].loaded.status = "stopped"
          /\ calls[c].loaded.process_pid = None)
         => LET sid == calls[c].sid IN
              /\ services'[sid].process_pid = calls[c].ent.process_pid
              /\ services'[sid].status = "running"
              /\ last'.overwrote = services[sid].process_pid
              /\ procs' = procs]_vars

\* Both calls found the service stopped with no pid and both spawned; the
\* second commit replaced the pid the first had recorded, both children
\* are alive and the row has the second pid only.
C20_Witness ==
    /\ last.op = "start"
    /\ calls = << >>
    /\ last.pre.status = "stopped"
    /\ last.pre.process_pid = None
    /\ last.spawned # None
    /\ last.overwrote \notin {None, last.spawned}
    /\ is_live(last.overwrote)
    /\ is_live(last.spawned)
    /\ services[last.sid].process_pid = last.spawned
    /\ services[last.sid].status = "running"
    /\ \A sid \in DOMAIN services :
          services[sid].process_pid # last.overwrote

\* The services of the store that reserve the port.
Reserving(port) == {i \in DOMAIN services : services[i].port = port}

\* C21 as stated: the port map has one record for every port of the range,
\* in ascending order, and a record's conflict flag is set exactly when
\* the port is in use on the host and a service whose status is not
\* running reserves it, whatever the number of services that reserve it.
C21_ConflictIffAnyIdleReserver ==
    last.op = "port_map" =>
        /\ Len(last.out) = IF last.end < last.start THEN 0
                           ELSE last.end - last.start + 1
        /\ \A i \in DOMAIN last.out :
              /\ last.out[i].port = last.start + i - 1
              /\ last.out[i].conflict <=>
                    /\ last.out[i].port \in in_use
                    /\ \E sid \in Reserving(last.out[i].port) :
                          services[sid].status # "running"

\* C21: the port map has one record for every port of the range, in
\* ascending order; a record names a service exactly when some service
\* reserves the port, and then one that does; and its conflict flag is set
\* exactly when the port is in use on the host and the service the record
\* names has a stored status other than running.
C21_ConflictIffNamedReserverIdle ==
    last.op = "port_map" =>
        /\ Len(last.out) = IF last.end < last.start THEN 0
                           ELSE last.end - last.start + 1
        /\ \A i \in DOMAIN last.out :
              LET rec == last.out[i] IN
              /\ rec.port = last.start + i - 1
              /\ rec.in_use_on_host <=> rec.port \in in_use
              /\ rec.reserved_by_service_id = None <=> Reserving(rec.port) = {}
              /\ rec.reserved_by_service_id # None =>
                    /\ rec.reserved_by_service_id \in Reserving(rec.port)
                    /\ rec.reserved_by_service_name =
                          services[rec.reserved_by_service_id].name
              /\ rec.conflict <=>
                    /\ rec.port \in in_use
                    /\ rec.reserved_by_service_id # None
                    /\ services[rec.reserved_by_service_id].status # "running"

\* A map of the whole range in which a port that two services reserve, one
\* said to run and one stopped, is in use and flagged: the record names the
\* stopped one.
C21_Witness ==
    /\ last.op = "port_map"
    /\ Len(last.out) = port_range_end - port_range_start + 1
    /\ \E i \in DOMAIN last.out :
          /\ last.out[i].conflict
          /\ Cardinality(Reserving(last.out[i].port)) = 2
          /\ \E sid \in Reserving(last.out[i].port) :
                services[sid].status = "running"
          /\ services[last.out[i].reserved_by_service_id].status = "stopped"

\* C22: deleting a Database removes that Database row and no other row;
\* every Service row stays, those that were linked to the database with a
\* null database_id and nothing else changed, the others as they were, so
\* that no Service refers to the deleted id; the KeyRef rows stay.
C22_DeleteDatabaseOnlyUnlinks ==
    [][last'.op = "delete_database" =>
         LET database_id == last'.database_id IN
         /\ database_id \in DOMAIN databases
         /\ databases' = [i \in DOMAIN databases \ {database_id} |-> databases[i]]
         /\ DOMAIN services' = DOMAIN services
         /\ \A sid \in DOMAIN services :
               /\ services'[sid].database_id # database_id
               /\ services'[sid] =
                     [services[sid] EXCEPT
                        !.database_id = IF @ = database_id THEN None ELSE @]
         /\ keyrefs' = keyrefs]_vars

\* A database that two services were linked to has been deleted; both
\* services are still there, unlinked.
C22_Witness ==
    /\ last.op = "delete_database"
    /\ Cardinality(last.linked) = 2
    /\ last.linked \subseteq DOMAIN services
    /\ \A sid \in last.linked : services[sid].database_id = None
    /\ last.database_id \notin DOMAIN databases

\* C23 as stated: every KeyRef row belongs to a Service row of the store.
C23_KeyRefsBelongToServices ==
    \A k \in keyrefs : k.service_id \in DOMAIN services

\* C24 as stated: importing the bundle that the previous operation imported,
\* with nothing in between, leaves the registry as the first import left
\* it: the same Service rows with the same fields (the port included, also
\* when the allocator chose it), the same Database rows and keys of the
\* same content.
C24_ImportTwiceIsImportOnce ==
    [][(/\ last.op = "import"
        /\ ~last.raised
        /\ last'.op = "import"
        /\ last'.bundle = last.bundle)
       => /\ ~last'.raised
          /\ last'.service_id = last.service_id
          /\ services' = services
          /\ databases' = databases
          /\ {KeyContent(k) : k \in keyrefs'} = {KeyContent(k) : k \in keyrefs}]_vars

C26_PortlessAndFailedStartsEndInError ==
    [][\A sid \in DOMAIN services :
         (/\ last'.op = "start" /\ last'.sid = sid
          /\ services[sid].start_command # ""
          /\ ~HasLivePid(services[sid]))
         => /\ (HasPortPlaceholder(services[sid].start_command)
                  /\ services[sid].port = None)
                 => /\ ~last'.raised
                    /\ last'.ret.status = "error"
                    /\ last'.ret.last_error # ""
                    /\ last'.ret.process_pid = None
                    /\ last'.spawned = None
                    /\ procs' = procs
            /\ (~last'.raised /\ last'.spawned = None)
                 => /\ last'.ret.status = "error"
                    /\ last'.ret.last_error # ""
                    /\ last'.ret.process_pid = None
                    /\ procs' = procs]_vars

\* C27: after a start that spawned, the row of the service in the store
\* has the pid of the spawned process, status running, no last_error, a
\* start time, the log path of the service and, when it had no local_url
\* and has a port, the URL of that port as local_url (a local_url it had
\* stays, rewritten only by a port reassignment); the spawned process is
\* alive and the returned entity is the row.
C27_SpawnIsRecorded ==
    [][\A sid \in DOMAIN services :
         (last'.op = "start" /\ last'.sid = sid /\ last'.spawned # None)
         => LET old == services[sid]
                row == services'[sid]
            IN /\ row.process_pid = last'.spawned
               /\ procs[last'.spawned] = "none"
               /\ procs'[last'.spawned] = "live"
               /\ row.status = "running"
               /\ row.last_error = ""
               /\ row.process_started_at
               /\ row.log_path = <<old.name, sid>>
               /\ (old.local_url = None /\ row.port # None)
                    => row.local_url = row.port
               /\ (old.local_url = None /\ row.port = None)
                    => row.local_url = None
               /\ (old.local_url # None /\ row.port = old.port)
                    => row.local_url = old.local_url
               /\ last'.ret = row]_vars

\* A start spawned for a service that had a port, no local_url and a status
\* other than running, and the row now shows the pid and the URL.
C27_Witness ==
    /\ last.op = "start"
    /\ last.spawned # None
    /\ last.pre.local_url = None
    /\ last.pre.status # "stopped"
    /\ last.pre.process_pid # None
    /\ last.sid \in DOMAIN services
    /\ services[last.sid].port # None
    /\ services[last.sid].local_url = services[last.sid].port
    /\ services[last.sid].process_pid = last.spawned
    /\ services[last.sid].status = "running"

C29_RefreshPrecedesEverything ==
    [][(last'.op \in {"start", "stop", "restart"} /\ ~last'.raised)
       => LET ret == last'.ret IN
          /\ ret.process_pid # None
               => \/ is_live(ret.process_pid)
                  \/ ret.process_pid = last'.spawned
          /\ ret.status = "running" => ret.process_pid # None]_vars

\* C30 as stated: when a stop has returned although the process it
\* signalled is still alive, the refresh of the service that follows puts
\* the process back into the registry: status running with that pid.
C30_RefreshRestoresSurvivor ==
    [][(/\ last.op = "stop"
        /\ ~last.raised
        /\ last.pre.process_pid # None
        /\ last.pre.process_pid \in last.signalled
        /\ is_live(last.pre.process_pid)
        /\ last'.op = "refresh"
        /\ last'.sid = last.sid)
       => /\ services'[last.sid].status = "running"
          /\ services'[last.sid].process_pid = last.pre.process_pid
          /\ last'.ret = services'[last.sid]]_vars

\* The file watcher alone: its caller starts and stops it while its
\* watch-loop threads run.
WatchLoop == \E t \in ThreadIds : _watch_loop(t)
CheckForZips == \E t \in ThreadIds : _check_for_zips(t)
ProcessZip == \E t \in ThreadIds : _process_zip(t)
ProcessZipImport == \E t \in ThreadIds : _process_zip_import(t)
ProcessZipSkip == \E t \in ThreadIds : _process_zip_skip(t)
SleepOver == \E t \in ThreadIds : sleep_over(t)

NextWatcher ==
    \/ FileWatcher_start
    \/ FileWatcher_stop
    \/ FileWatcher_join
    \/ WatchLoop
    \/ CheckForZips
    \/ ProcessZip
    \/ ProcessZipImport
    \/ ProcessZipSkip
    \/ SleepOver

SpecWatcher == Init /\ [][NextWatcher]_vars

\* C31: an import whose bundle has no database descriptor, or does not
\* ask for the database to be created, leaves the Database table as it
\* was.  Otherwise exactly one Database row has the descriptor's name
\* afterwards: the row that had it, now with the descriptor's fields, or a
\* new row; every other row is as it was; and when the import returns, the
\* id of that row is the database_id it returns and the database_id of the
\* imported service.
C31_DatabaseIsUpsertedByName ==
    [][last'.op = "import"
       => LET bundle == last'.bundle
              had == DatabaseByName(databases, bundle.database.database_name)
              has == DatabaseByName(databases', bundle.database.database_name)
          IN IF bundle.database = NoDatabase \/ ~bundle.auto_create_db
             THEN /\ databases' = databases
                  /\ last'.database_id = None
             ELSE /\ Cardinality(has) = 1
                  /\ had # {} => has = had
                  /\ had = {} => has \cap DOMAIN databases = {}
                  /\ \A id \in has :
                        /\ databases'[id].type = bundle.database.type
                        /\ DOMAIN databases' = DOMAIN databases \cup {id}
                        /\ ~last'.raised
                             => /\ last'.database_id = id
                                /\ services'[last'.service_id].database_id = id
                  /\ \A id \in DOMAIN databases \ had :
                        databases'[id] = databases[id]]_vars

\* An import found the database of its descriptor under another type,
\* updated that row and linked a second service to it.
C31_Witness ==
    /\ last.op = "import"
    /\ ~last.raised
    /\ last.bundle.auto_create_db
    /\ last.bundle.database.type = "postgres"
    /\ last.database_id \in DOMAIN databases
    /\ databases[last.database_id].type = "postgres"
    /\ Cardinality(DOMAIN databases) = 1
    /\ Cardinality({i \in DOMAIN services :
                       services[i].database_id = last.database_id}) = 2

\* C36 as stated: an import that ends in the allocator's no-free-port error
\* leaves the Database, Service and KeyRef tables as they were.
C36_FailedImportChangesNothing ==
    [][(last'.op = "import" /\ last'.raised)
       => /\ databases' = databases
          /\ services' = services
          /\ keyrefs' = keyrefs]_vars

\* C32: when a resolution of conflicts has returned, no two services hold
\* the same port, and no service that the registry does not show as running
\* (status running with a pid) holds a port that is in use on the host.
C32_ResolvedPortsAreDistinctAndFree ==
    (last.op = "resolve_conflicts" /\ ~last.raised)
    => /\ \A i, j \in DOMAIN services :
             (services[i].port # None /\ services[i].port = services[j].port)
             => i = j
       /\ \A i \in DOMAIN services :
             (services[i].port # None /\ ~CountsAsRunning(services[i]))
             => services[i].port \notin in_use

\* A resolution moved one service off a port it shared and another off a
\* port in use on the host.
C32_Witness ==
    /\ last.op = "resolve_conflicts"
    /\ ~last.raised
    /\ last.duplicates # {}
    /\ last.squatted # {}
    /\ \A i \in DOMAIN services : services[i].port # None

\* C37 as stated: a resolution of conflicts leaves the port of every
\* service that is running (status running with a pid) as it was.
C37_RunningServicesKeepTheirPort ==
    [][last'.op = "resolve_conflicts"
       => \A sid \in DOMAIN services :
             CountsAsRunning(services[sid])
             => services'[sid].port = services[sid].port]_vars

\* C37: a resolution of conflicts changes the port of a running service
\* only when a running service created earlier reserves the same port: the
\* later one is moved as a duplicate, whatever its status.  A running
\* service that is the first running one on its port keeps it, also when
\* the port is in use on the host; the step for ports in use moves
\* services that are not running only.
C37_RunningServiceMovesOnlyAsDuplicate ==
    [][last'.op = "resolve_conflicts"
       => /\ \A sid \in DOMAIN services :
                CountsAsRunning(services[sid])
                => LET earlier == {k \in Owners(services, services[sid].port) :
                                      k < sid /\ CountsAsRunning(services[k])}
                   IN /\ services'[sid].port # services[sid].port
                           => /\ services[sid].port # None
                              /\ earlier # {}
                              /\ sid \in last'.duplicates
                      /\ (earlier # {} /\ ~last'.raised /\ services[sid].port # None)
                           => services'[sid].port # services[sid].port
                      /\ sid \notin last'.squatted
          /\ \A sid \in last'.squatted :
                services'[sid].port # services[sid].port
                  \/ sid \in last'.duplicates]_vars

\* A resolution left a running service on a port that is in use on the
\* host and moved a service that was not running off the same port.
C37_Witness ==
    /\ last.op = "resolve_conflicts"
    /\ ~last.raised
    /\ \E i \in DOMAIN services :
          /\ CountsAsRunning(services[i])
          /\ services[i].port \in in_use
          /\ i \notin last.duplicates
    /\ last.duplicates # {}

\* C33 as stated: an import under the name of an existing service leaves
\* the status, process_pid, process_started_at, last_error and log_path of
\* that service as they were.
C33_ImportKeepsLiveState ==
    [][(last'.op = "import" /\ ~last'.raised /\ last'.existing # None)
       => LET old == services[last'.existing]
              new == services'[last'.existing]
          IN /\ last'.service_id = last'.existing
             /\ new.status = old.status
             /\ new.process_pid = old.process_pid
             /\ new.process_started_at = old.process_started_at
             /\ new.last_error = old.last_error
             /\ new.log_path = old.log_path]_vars

\* C34 as stated: once every import of an auto-assigning bundle has
\* returned, no two services hold the same port, however the imports
\* interleaved.
C34_AutoAssignedPortsAreDistinct ==
    calls = << >>
    => \A i, j \in DOMAIN services :
          (services[i].port # None /\ services[i].port = services[j].port)
          => i = j

\* C35 as stated: when a stop of a service returns after a start of the
\* same service that overlapped with it (the stop had loaded the service
\* before the start recorded the pid of the process it spawned, and so did
\* not signal that process), the registry does not show the service as
\* stopped without a pid while that process is alive.
C35_NoUntrackedChildAfterStartAndStop ==
    [][\A c \in DOMAIN calls :
         (/\ calls[c].op = "stop"
          /\ calls' = << >>
          /\ last.op = "start"
          /\ last.sid = calls[c].sid
          /\ last.spawned # None
          /\ calls[c].loaded.process_pid # last.spawned
          /\ last'.op = "stop")
         => ~(/\ services'[calls[c].sid].status = "stopped"
              /\ services'[calls[c].sid].process_pid = None
              /\ last.spawned \notin last'.signalled
              /\ procs'[last.spawned] = "live")]_vars

\* C38 as stated: when the startup routine with auto-start on boot is
\* through, every service with a start_command has status running and a
\* recorded pid that names a live process, or has status error.
C38_BootStartsOrFlagsEveryService ==
    last.op = "boot"
    => \A sid \in DOMAIN services :
          services[sid].start_command # ""
          => \/ services[sid].status = "running" /\ HasLivePid(services[sid])
             \/ services[sid].status = "error"

\* C39: For one FileWatcher and any sequence of start() and stop() calls, at
\* most one watch-loop thread is active at any time, no ZIP path is handed to
\* _process_zip while it is recorded in processed_files, and start() while
\* the watcher is running starts no second thread.
C39_OneWatchLoopAtATime ==
    /\ Cardinality(ActiveLoops) <= 1
    /\ last.op = "_process_zip" => ~last.recorded
    /\ last.op = "watcher_start" /\ last.was_running => ~last.spawned
====
